---- MODULE Spec2Model ----
(***************************************************************************)
(* Model of the linear-algebra lowerings of                                *)
(* lib/Conversion/TorchToLinalg/Linear.cpp: aten.mm, aten.matmul,          *)
(* aten.bmm and aten.convolution.                                          *)
(*                                                                         *)
(* The driver presents one operator instance at a time (phase "pending"),  *)
(* one matchAndRewrite runs to completion on it (phase "done") and leaves  *)
(* in `res` what the call returned and what it created through the         *)
(* rewriter, in creation order.                                            *)
(***************************************************************************)
EXTENDS Integers, Sequences, FiniteSets, TLC

VARIABLES phase, opname, inp, res

vars == <<phase, opname, inp, res>>

(***************************************************************************)
(* Bounds of the model.                                                    *)
(***************************************************************************)
\* largest operand rank presented to aten.mm / aten.matmul / aten.bmm
MaxRank == 4
\* largest element width given to signShift
MaxBits == 8

\* batch extents of the operands (1 broadcasts, 2 and 5 do not agree)
BatchExtents == {1, 2, 5}
\* the two trailing (matrix) extents of a lhs / rhs of rank >= 2: the
\* contracting extents agree (3, 3) or differ (3, 2)
LhsMatShapes == {<<2, 3>>}
RhsMatShapes == {<<3, 4>>, <<2, 4>>}
\* the extent of a lhs / rhs of rank 1
LhsVecShapes == {<<3>>}
RhsVecShapes == {<<3>>, <<2>>}
\* zero-point and element width of a quantized lhs / rhs
LhsZeroPoints == {131}
RhsZeroPoints == {7}
ElementBits == {8}

(***************************************************************************)
(* Integer arithmetic of the emitted arith ops.                            *)
(***************************************************************************)
\* the zero-points are truncated to i32 before signShift sees them
MaxI32 == 2147483647
MinI32 == (-MaxI32) - 1

\* arith.addi on i32: two's complement wrap-around, evaluated without
\* leaving the 32-bit range
AddI32(a, b) ==
    IF b < 0 /\ a < MinI32 - b THEN ((a + MaxI32) + (MaxI32 + b)) + 2
    ELSE IF b > 0 /\ a > MaxI32 - b THEN ((a - MaxI32) + (b - MaxI32)) - 2
    ELSE a + b

\* 1 << n
Shl1(n) == 2 ^ n

\* the signed reading of a w-bit pattern
ToSigned(bits, w) == IF bits >= Shl1(w - 1) THEN bits - Shl1(w) ELSE bits

\* arith.addi on two w-bit values, result read as signed w-bit
AddIN(a, b, w) == ToSigned((a + b) % Shl1(w), w)

(***************************************************************************)
(* signShift: for unsigned types, shift operand and zero-point down by     *)
(* 2^(numBits-1).                                                          *)
(***************************************************************************)
minSI(numBits) == -(Shl1(numBits - 1))

\* variant of signShiftZp that leaves the zero-point where it was
signShiftZpKept(zp, isUnsignedType, numBits) == zp

signShiftZp(zp, isUnsignedType, numBits) ==
    IF ~isUnsignedType THEN zp ELSE AddI32(zp, minSI(numBits))

signShiftArg(v, isUnsignedType, numBits) ==
    IF ~isUnsignedType THEN v ELSE AddIN(v, minSI(numBits), numBits)

\* what signShift creates through the rewriter
signShiftOps(isUnsignedType) ==
    IF ~isUnsignedType THEN <<>>
    ELSE <<"arith.constant", "arith.addi", "arith.constant",
           "linalg.generic.elementwise">>

(***************************************************************************)
(* The state between two calls, and the result of a call.                  *)
(***************************************************************************)
NoInput == [kind |-> "none"]

NoResult ==
    [status    |-> "none",   \* "success", "failure"
     reason    |-> "",       \* the notifyMatchFailure message, "" if none
     emitted   |-> <<>>,     \* constructs created, in order
     dimq      |-> <<>>,     \* dimension queries: operand, its rank, index
     acc       |-> <<>>,     \* extents of the accumulator
     prim      |-> "none",   \* the contraction / convolution primitive
     primZps   |-> <<>>,     \* zero-points handed to the primitive
     shifted   |-> <<>>,     \* operands rewritten by signShift
     batch     |-> <<>>,     \* broadcasted batch shape
     reassoc   |-> <<>>,     \* reassociation of the collapse / expand
     collapsed |-> <<>>,     \* extents of the collapsed operands: lhs, rhs
     iters     |-> <<>>,     \* iterator types of the generic contraction
     resRank   |-> -1,       \* rank of the replacement value
     values    |-> <<>>,     \* numeric results (signShift, trilinear)
     layout    |-> <<>>,     \* axes of the replacement value (convolution)
     perms     |-> <<>>,     \* permutations handed to transposeValue
     sumDims12 |-> <<>>,     \* trilinear: reduced after the first multiply
     sumDims23 |-> <<>>,     \* trilinear: reduced after the second multiply
     outputShape |-> <<>>,   \* trilinear: extents recorded per dimension
     unrollSize |-> -1,      \* trilinear: extent of the unroll dimension
     operandShapes |-> <<>>, \* trilinear: operands after the unsqueezes
     slices    |-> <<>>,     \* trilinear: start indices of the slices per k
     unrollSteps |-> <<>>,   \* trilinear: the k of every step, as emitted
     dependsOn |-> {},       \* trilinear: the k whose product reaches the result
     accElem   |-> "",       \* element type of the accumulator
     outerSizes |-> <<>>,    \* spatial extents of the inserted-stride buffer
     offsets   |-> <<>>,     \* spatial offsets of the insertion
     insertStrides |-> <<>>, \* spatial steps of the insertion
     accInit   |-> "",       \* convolution: how the accumulator is initialised
     addedDimensions |-> <<>>, \* convolution: axes the bias is broadcast along
     biasElem  |-> "",       \* convolution: element type of the broadcast bias
     groupShape |-> <<>>,    \* convolution: leading extents of the expanded weight
     runtime   |-> "untracked"] \* what the emitted program does when run

Init ==
    /\ phase = "pending"
    /\ opname = "none"
    /\ inp = NoInput
    /\ res = NoResult

\* the driver presents the next operator instance
NextOp ==
    /\ phase = "done"
    /\ phase' = "pending"
    /\ opname' = "none"
    /\ inp' = NoInput
    /\ res' = NoResult

(***************************************************************************)
(* Helpers shared by the lowerings.                                        *)
(***************************************************************************)
RECURSIVE Flatten(_)
Flatten(ss) == IF ss = <<>> THEN <<>> ELSE Head(ss) \o Flatten(Tail(ss))

RECURSIVE Product(_)
Product(s) == IF s = <<>> THEN 1 ELSE Head(s) * Product(Tail(s))

Max(a, b) == IF a >= b THEN a ELSE b
Min(a, b) == IF a <= b THEN a ELSE b

\* position of the first x in s, 0 if there is none
IndexOf(s, x) ==
    IF \E i \in 1..Len(s) : s[i] = x
      THEN CHOOSE i \in 1..Len(s) : s[i] = x /\ \A j \in 1..(i - 1) : s[j] # x
      ELSE 0

\* getDimOp(rewriter, loc, v, dim): the query it makes; dim is 0-based
DimQuery(operand, shape, dim) ==
    [operand |-> operand, rank |-> Len(shape), dim |-> dim]

InBounds(q) == 0 <= q.dim /\ q.dim < q.rank

\* the extent a query yields; `ub` is what an out-of-range query yields
DimValue(shape, dim, ub) ==
    IF 0 <= dim /\ dim < Len(shape) THEN shape[dim + 1] ELSE ub

\* checkDimEqualHelper: a runtime assertion that two extents are equal,
\* elided when the context assumes strict symbolic shapes
checkDimEqualHelper(strict) ==
    IF strict THEN <<>> ELSE <<"arith.cmpi", "cf.assert">>

\* the operands a lowering is presented with
RankShapes(r, vecs, mats) ==
    IF r = 0 THEN {<<>>}
    ELSE IF r = 1 THEN vecs
    ELSE {b \o m : b \in [1..(r - 2) -> BatchExtents], m \in mats}

LhsShapes(ranks) == UNION {RankShapes(r, LhsVecShapes, LhsMatShapes) : r \in ranks}
RhsShapes(ranks) == UNION {RankShapes(r, RhsVecShapes, RhsMatShapes) : r \in ranks}

Failure(reason, emitted, dimq) ==
    [NoResult EXCEPT !.status = "failure", !.reason = reason,
                     !.emitted = emitted, !.dimq = dimq]

(***************************************************************************)
(* signShift applied to one operand element and one zero-point.            *)
(***************************************************************************)
\* zero-points around the ends of the i32 range and around 0
ZeroPointSamples ==
    {MinI32, MinI32 + 1, MinI32 + 127, MinI32 + 128, MinI32 + 129,
     -129, -128, -1, 0, 1, 127, 128, 255, MaxI32 - 1, MaxI32}

SignShiftCall ==
    /\ phase = "pending"
    /\ \E n \in 1..MaxBits, u \in BOOLEAN, zp \in ZeroPointSamples :
       \E bits \in 0..(Shl1(n) - 1) :
          LET v == IF u THEN bits ELSE ToSigned(bits, n) IN
          /\ inp' = [kind |-> "signShift", numBits |-> n, v |-> v, zp |-> zp,
                     isUnsignedType |-> u]
          /\ res' = [NoResult EXCEPT
                       !.status = "success",
                       !.emitted = signShiftOps(u),
                       !.values = <<signShiftArg(v, u, n),
                                    signShiftZp(zp, u, n)>>]
    /\ phase' = "done"
    /\ opname' = "signShift"

NextSignShift == SignShiftCall \/ NextOp

SpecSignShift == Init /\ [][NextSignShift]_vars

MmMixedQuantization(lq, rq) == lq # rq

\* variant of MmContractingAssert that never asserts
MmContractingAssertNever(strict) == <<>>

\* the contracting-dimension check of aten.mm
MmContractingAssert(strict) ==
    IF ~strict
      THEN <<"tensor.dim", "tensor.dim", "arith.cmpi", "cf.assert">>
      ELSE <<>>

\* the zero-point preparation shared by aten.mm and aten.matmul:
\* materializeTargetConversion and arith.trunci to i32 of each zero-point,
\* then signShift of each operand
QuantPrepareOps(in) ==
    <<"materialize", "materialize", "arith.trunci", "arith.trunci">>
        \o signShiftOps(in.lu) \o signShiftOps(in.ru)

ShiftedZps(in) ==
    <<signShiftZp(in.lzp, in.lu, in.lbits), signShiftZp(in.rzp, in.ru, in.rbits)>>

ShiftedOperands(in) == <<in.lu, in.ru>>

\* if (accumulatorDType != resultType.getElementType())
\*   matmul = convertTensorToElementType(matmul, resultType.getElementType())
MmConvertResult(in) ==
    IF in.accType # in.resultType THEN <<"convertTensorToElementType">> ELSE <<>>

ConvertAtenMmOp(in) ==
    LET lhs == in.lhs
        rhs == in.rhs
        q1  == <<DimQuery("lhs", lhs, 0), DimQuery("rhs", rhs, 1)>>
        e1  == <<"tensor.dim", "tensor.dim">>
        q2  == IF in.strict THEN q1
               ELSE q1 \o <<DimQuery("lhs", lhs, 1), DimQuery("rhs", rhs, 0)>>
        e2  == e1 \o MmContractingAssert(in.strict) \o <<"createZeroInitTensor">>
        acc == <<lhs[1], rhs[2]>>
        prim == IF in.lq THEN "linalg.quantized_matmul" ELSE "linalg.matmul"
        e3  == IF in.lq THEN e2 \o QuantPrepareOps(in) \o <<prim>>
               ELSE e2 \o <<prim>>
    IN
    IF ~in.typesOk THEN Failure("verifyLinalgCompatibleTypes", <<>>, <<>>)
    ELSE IF Len(lhs) # 2 \/ Len(rhs) # 2
      THEN Failure("expected both operands to aten.mm to be rank 2", <<>>, <<>>)
    ELSE IF MmMixedQuantization(in.lq, in.rq)
      THEN Failure("unsupported: aten.mm with mixed quantization", <<>>, <<>>)
    ELSE IF ~in.dtypeEq /\ ~in.lq
      THEN Failure("unsupported: aten.mm with different input element types",
                   <<>>, <<>>)
    ELSE [NoResult EXCEPT
            !.status = "success",
            !.emitted = e3 \o MmConvertResult(in) \o <<"tensor.cast">>,
            !.accElem = in.accType,
            !.dimq = q2,
            !.acc = acc,
            !.prim = prim,
            !.primZps = IF in.lq THEN ShiftedZps(in) ELSE <<>>,
            !.shifted = IF in.lq THEN ShiftedOperands(in) ELSE <<>>,
            !.resRank = 2]

\* the quantization of the two operands of one operator instance: which of
\* them comes from a make-per-tensor-quantized-tensor construction, and
\* for those the signedness of the quantized type
Quantizations ==
    {[lq |-> FALSE, rq |-> FALSE, lu |-> FALSE, ru |-> FALSE],
     [lq |-> TRUE,  rq |-> FALSE, lu |-> FALSE, ru |-> FALSE],
     [lq |-> FALSE, rq |-> TRUE,  lu |-> FALSE, ru |-> FALSE]}
    \cup {[lq |-> TRUE, rq |-> TRUE, lu |-> lu, ru |-> ru] :
            lu \in BOOLEAN, ru \in BOOLEAN}

\* ranks of the operands presented to aten.mm and aten.bmm
MmRanks == {1, 2, 3}

\* getDefaultAccType(rewriter, lhsType.getElementType()) for the operands
\* presented, and the element types a result is declared with
DefaultAccType == "f32"
ResultElementTypes == {"f16", "f32"}

\* one instance of aten.mm, aten.matmul or aten.bmm; the first `dyn` batch
\* dimensions of its result type are dynamic
OperandInput(kind, typesOk, lhs, rhs, q, dtypeEq, strict, dyn, lzp, rzp, bits, resultType) ==
    [kind |-> kind, typesOk |-> typesOk, lhs |-> lhs, rhs |-> rhs, dyn |-> dyn,
     accType |-> DefaultAccType, resultType |-> resultType,
     lq |-> q.lq, rq |-> q.rq, lu |-> q.lu, ru |-> q.ru,
     lzp |-> lzp, rzp |-> rzp, lbits |-> bits, rbits |-> bits,
     dtypeEq |-> dtypeEq, strict |-> strict]

AtenMm ==
    /\ phase = "pending"
    /\ \E typesOk \in BOOLEAN, lhs \in LhsShapes(MmRanks),
          rhs \in RhsShapes(MmRanks), q \in Quantizations,
          dtypeEq \in BOOLEAN, strict \in BOOLEAN,
          lzp \in LhsZeroPoints, rzp \in RhsZeroPoints, bits \in ElementBits,
          resultType \in ResultElementTypes :
          LET in == OperandInput("aten.mm", typesOk, lhs, rhs, q, dtypeEq,
                                   strict, 0, lzp, rzp, bits, resultType)
          IN  /\ inp' = in
              /\ res' = ConvertAtenMmOp(in)
    /\ phase' = "done"
    /\ opname' = "aten.mm"

NextMm == AtenMm \/ NextOp

SpecMm == Init /\ [][NextMm]_vars


(***************************************************************************)
(* ConvertAtenMatmulOp::matchAndRewrite                                    *)
(***************************************************************************)
\* variant of MatmulMixedQuantization that only rejects a quantized lhs
\* with a plain rhs
MatmulMixedQuantizationOneWay(lq, rq) == lq /\ ~rq

\* static_cast<bool>(lhsZeroPoint) != static_cast<bool>(rhsZeroPoint)
MatmulMixedQuantization(lq, rq) == lq # rq

\* rank of the value aten.matmul is declared to return
MatmulResultRank(lhsRank, rhsRank) ==
    IF lhsRank = 0 \/ rhsRank = 0 THEN 0
    ELSE IF lhsRank = 1 /\ rhsRank = 1 THEN 0
    ELSE IF lhsRank = 1 THEN rhsRank - 1
    ELSE IF rhsRank = 1 THEN lhsRank - 1
    ELSE Max(lhsRank, rhsRank)

\* the extent at 0-based position idx of the batch dimensions of an
\* operand, aligned from the right with a batch of rank batchRank;
\* 0 where the operand has no dimension
AlignedBatchExtent(shape, batchRank, idx) ==
    LET own == Len(shape) - 2
        k   == idx - (batchRank - own)
    IN  IF k >= 0 THEN shape[k + 1] ELSE 0

\* variant of broadcastedBatchShape that takes the lhs extent wherever both
\* operands have a batch dimension
broadcastedBatchShapeLhs(lhs, rhs) ==
    LET lhsRank == Len(lhs)
        rhsRank == Len(rhs)
        maxRank == Max(lhsRank, rhsRank)
        minRank == Min(lhsRank, rhsRank)
        batchRank == maxRank - 2
        maxRankMatrix == IF lhsRank > rhsRank THEN lhs ELSE rhs
    IN  [p \in 1..batchRank |->
            LET i == batchRank - (p - 1) IN
            IF i <= minRank - 2
              THEN lhs[(lhsRank - 2 - i) + 1]
              ELSE maxRankMatrix[(maxRank - 2 - i) + 1]]

\* the loop over i = 1..batchRank: broadcastedBatchShape[batchRank - i] is
\* the larger of the two extents, or the extent of the higher-rank operand
broadcastedBatchShape(lhs, rhs) ==
    LET lhsRank == Len(lhs)
        rhsRank == Len(rhs)
        maxRank == Max(lhsRank, rhsRank)
        minRank == Min(lhsRank, rhsRank)
        batchRank == maxRank - 2
        maxRankMatrix == IF lhsRank > rhsRank THEN lhs ELSE rhs
    IN  [p \in 1..batchRank |->
            LET i == batchRank - (p - 1) IN
            IF i <= minRank - 2
              THEN Max(lhs[(lhsRank - 2 - i) + 1], rhs[(rhsRank - 2 - i) + 1])
              ELSE maxRankMatrix[(maxRank - 2 - i) + 1]]

\* the dimension queries of that loop, in the order they are made
BatchDimQueries(lhs, rhs) ==
    LET lhsRank == Len(lhs)
        rhsRank == Len(rhs)
        maxRank == Max(lhsRank, rhsRank)
        minRank == Min(lhsRank, rhsRank)
        batchRank == maxRank - 2
        maxName == IF lhsRank > rhsRank THEN "lhs" ELSE "rhs"
        maxRankMatrix == IF lhsRank > rhsRank THEN lhs ELSE rhs
    IN  Flatten([i \in 1..batchRank |->
            IF i <= minRank - 2
              THEN <<DimQuery("lhs", lhs, lhsRank - 2 - i),
                     DimQuery("rhs", rhs, rhsRank - 2 - i)>>
              ELSE <<DimQuery(maxName, maxRankMatrix, maxRank - 2 - i)>>])

\* what that loop creates
BatchDimOps(lhs, rhs) ==
    LET minRank == Min(Len(lhs), Len(rhs))
        batchRank == Max(Len(lhs), Len(rhs)) - 2
    IN  Flatten([i \in 1..batchRank |->
            IF i <= minRank - 2
              THEN <<"tensor.dim", "tensor.dim", "arith.maxui">>
              ELSE <<"tensor.dim">>])

\* torch_to_linalg::broadcastToGivenShape on one operand: it cannot be
\* constructed when a batch extent of the operand that the type states is
\* neither 1 nor the extent it is broadcast to.  The first `dyn` batch
\* dimensions of the result are dynamic in the types.
broadcastToGivenShapeFails(shape, batch, dyn) ==
    \E p \in 1..Len(batch) :
        LET e == AlignedBatchExtent(shape, Len(batch), p - 1) IN
        /\ p > dyn
        /\ e # 0
        /\ e # 1
        /\ e # batch[p]

\* variant of MatmulBroadcastFailed that goes on after a failed broadcast
MatmulBroadcastFailedIgnored(shape, batch, dyn) == FALSE

\* if (failed(torch_to_linalg::broadcastToGivenShape(...)))
MatmulBroadcastFailed(shape, batch, dyn) ==
    broadcastToGivenShapeFails(shape, batch, dyn)

\* variant of multipleDynamicBatchDims that collapses whenever it can count
multipleDynamicBatchDimsNever(dyn) == FALSE

\* llvm::count(batchDimsInt, kUnknownSize) > 1
multipleDynamicBatchDims(dyn) == dyn > 1

\* for (i = 0, j = 0; i < maxRank; i++) { if (i >= batchRank) j++;
\*   reassociation[j].push_back(i); }
CollapseReassociation(maxRank, batchRank) ==
    [j \in 1..3 |->
        IF j = 1 THEN [k \in 1..batchRank |-> k - 1]
        ELSE IF j = 2 THEN <<batchRank>>
        ELSE [k \in 1..(maxRank - batchRank - 1) |-> batchRank + k]]

\* the iterator types of the generic contraction
GenericIterators(batchRank) ==
    [k \in 1..batchRank |-> "parallel"] \o <<"parallel", "reduction", "parallel">>


\* variant of MatmulPrimitive with the vector-matrix and the matrix-vector
\* primitives exchanged
MatmulPrimitiveSwapped(lhsRank, rhsRank, quantized, generic) ==
    IF lhsRank = 1 /\ rhsRank = 1 THEN "linalg.dot"
    ELSE IF lhsRank = 1 /\ rhsRank = 2 THEN "linalg.matvec"
    ELSE IF lhsRank = 2 /\ rhsRank = 1 THEN "linalg.vecmat"
    ELSE IF lhsRank = 2 /\ rhsRank = 2
      THEN IF quantized THEN "linalg.quantized_matmul" ELSE "linalg.matmul"
    ELSE IF generic THEN "linalg.generic.contraction"
    ELSE IF quantized THEN "linalg.quantized_batch_matmul"
    ELSE "linalg.batch_matmul"

\* the contraction primitive of each arm, below the quantized
\* vector-promotion branch
MatmulPrimitive(lhsRank, rhsRank, quantized, generic) ==
    IF lhsRank = 1 /\ rhsRank = 1 THEN "linalg.dot"
    ELSE IF lhsRank = 1 /\ rhsRank = 2 THEN "linalg.vecmat"
    ELSE IF lhsRank = 2 /\ rhsRank = 1 THEN "linalg.matvec"
    ELSE IF lhsRank = 2 /\ rhsRank = 2
      THEN IF quantized THEN "linalg.quantized_matmul" ELSE "linalg.matmul"
    ELSE IF generic THEN "linalg.generic.contraction"
    ELSE IF quantized THEN "linalg.quantized_batch_matmul"
    ELSE "linalg.batch_matmul"

\* the zero-points among the operands of a primitive
PrimitiveZps(prim, zps) ==
    IF prim \in {"linalg.quantized_matmul", "linalg.quantized_batch_matmul"}
      THEN zps ELSE <<>>

\* the quantized vec-vec, vec-mat and mat-vec branch
MatmulQuantizedVector(in, ub, pre) ==
    LET lhsRank == Len(in.lhs)
        rhsRank == Len(in.rhs)
        lhsVec == lhsRank = 1 /\ rhsRank <= 2
        rhsVec == lhsRank <= 2 /\ rhsRank = 1
        lhs == IF lhsVec THEN <<1, in.lhs[1]>> ELSE in.lhs
        rhs == IF rhsVec THEN <<in.rhs[1], 1>> ELSE in.rhs
        e1 == pre \o (IF lhsVec THEN <<"tensor.expand_shape">> ELSE <<>>)
                  \o (IF rhsVec THEN <<"tensor.expand_shape">> ELSE <<>>)
        qs == <<DimQuery("lhs", lhs, 0), DimQuery("lhs", lhs, 1),
                DimQuery("rhs", rhs, 0), DimQuery("rhs", rhs, 1)>>
        bad == {k \in 1..4 : ~InBounds(qs[k])}
        first == CHOOSE k \in bad : \A j \in bad : k <= j
        e2 == e1 \o <<"tensor.dim", "tensor.dim", "tensor.dim", "tensor.dim">>
                 \o checkDimEqualHelper(in.strict)
                 \o <<"createZeroInitTensor", "linalg.quantized_matmul",
                      "tensor.collapse_shape", "tensor.cast">>
    IN  IF bad # {} /\ ub = 0
          THEN [NoResult EXCEPT
                  !.status = "crash",
                  !.emitted = e1 \o [k \in 1..(first - 1) |-> "tensor.dim"],
                  !.dimq = SubSeq(qs, 1, first),
                  !.shifted = ShiftedOperands(in)]
          ELSE [NoResult EXCEPT
                  !.status = "success",
                  !.emitted = e2,
                  !.dimq = qs,
                  !.acc = <<DimValue(lhs, 0, ub), DimValue(rhs, 1, ub)>>,
                  !.prim = "linalg.quantized_matmul",
                  !.primZps = ShiftedZps(in),
                  !.shifted = ShiftedOperands(in),
                  !.resRank = MatmulResultRank(lhsRank, rhsRank)]

\* the fifth case: batch-matrix multiplication
MatmulBatched(in, pre) ==
    LET lhs == in.lhs
        rhs == in.rhs
        lhsRank == Len(lhs)
        rhsRank == Len(rhs)
        maxRank == Max(lhsRank, rhsRank)
        batchRank == maxRank - 2
        batch == broadcastedBatchShape(lhs, rhs)
        qs == BatchDimQueries(lhs, rhs)
                \o <<DimQuery("lhs", lhs, lhsRank - 2),
                     DimQuery("lhs", lhs, lhsRank - 1),
                     DimQuery("rhs", rhs, rhsRank - 2),
                     DimQuery("rhs", rhs, rhsRank - 1)>>
        lhsDim0 == lhs[lhsRank - 1]
        rhsDim1 == rhs[rhsRank]
        e1 == pre \o BatchDimOps(lhs, rhs)
                  \o <<"tensor.dim", "tensor.dim", "tensor.dim", "tensor.dim">>
                  \o checkDimEqualHelper(in.strict)
                  \o [k \in 1..(2 * maxRank) |-> "arith.index_cast"]
        e2 == e1 \o <<"broadcast">>
        e3 == e2 \o <<"broadcast">>
        generic == multipleDynamicBatchDims(in.dyn)
        prim == MatmulPrimitive(lhsRank, rhsRank, in.lq, maxRank # 3 /\ generic)
        base == [NoResult EXCEPT
                   !.status = "success",
                   !.dimq = qs,
                   !.batch = batch,
                   !.prim = prim,
                   !.primZps = PrimitiveZps(prim, IF in.lq THEN ShiftedZps(in) ELSE <<>>),
                   !.shifted = IF in.lq THEN ShiftedOperands(in) ELSE <<>>,
                   !.resRank = MatmulResultRank(lhsRank, rhsRank)]
    IN
    IF batchRank <= 0
      THEN Failure("expected batch dimensions", pre, <<>>)
    ELSE IF MatmulBroadcastFailed(lhs, batch, in.dyn)
      THEN [Failure("unable to perform broadcast operation", e1, qs)
              EXCEPT !.batch = batch]
    ELSE IF MatmulBroadcastFailed(rhs, batch, in.dyn)
      THEN [Failure("unable to perform broadcast operation", e2, qs)
              EXCEPT !.batch = batch]
    ELSE IF maxRank = 3
      THEN [base EXCEPT
              !.emitted = e3 \o <<"createZeroInitTensor", prim, "tensor.cast">>,
              !.acc = <<batch[1], lhsDim0, rhsDim1>>]
    ELSE IF ~generic
      THEN [base EXCEPT
              !.emitted = e3 \o <<"tensor.collapse_shape", "tensor.collapse_shape">>
                             \o [k \in 1..(batchRank - 1) |-> "arith.muli"]
                             \o <<"tensor.empty", "arith.constant", "linalg.fill",
                                  prim, "tensor.expand_shape", "tensor.cast">>,
              !.reassoc = CollapseReassociation(maxRank, batchRank),
              !.collapsed = <<<<Product(batch), lhs[lhsRank - 1], lhs[lhsRank]>>,
                              <<Product(batch), rhs[rhsRank - 1], rhs[rhsRank]>>>>,
              !.acc = <<Product(batch), lhsDim0, rhsDim1>>]
    ELSE [base EXCEPT
            !.emitted = e3 \o <<"createZeroInitTensor", prim, "tensor.cast">>,
            !.iters = GenericIterators(batchRank),
            !.acc = batch \o <<lhsDim0, rhsDim1>>]

MatmulArms(in, ub) ==
    LET lhs == in.lhs
        rhs == in.rhs
        lhsRank == Len(lhs)
        rhsRank == Len(rhs)
        pre == IF in.lq THEN QuantPrepareOps(in) ELSE <<>>
        prim == MatmulPrimitive(lhsRank, rhsRank, in.lq, FALSE)
        small(qs, acc) ==
            [NoResult EXCEPT
               !.status = "success",
               !.emitted = pre \o [k \in 1..Len(qs) |-> "tensor.dim"]
                               \o checkDimEqualHelper(in.strict)
                               \o <<"createZeroInitTensor", prim, "tensor.cast">>,
               !.dimq = qs,
               !.acc = acc,
               !.prim = prim,
               !.primZps = PrimitiveZps(prim, IF in.lq THEN ShiftedZps(in) ELSE <<>>),
               !.shifted = IF in.lq THEN ShiftedOperands(in) ELSE <<>>,
               !.resRank = MatmulResultRank(lhsRank, rhsRank)]
    IN
    IF ~in.typesOk THEN Failure("verifyLinalgCompatibleTypes", <<>>, <<>>)
    ELSE IF MatmulMixedQuantization(in.lq, in.rq)
      THEN Failure("unsupported: aten.matmul with mixed quantization", <<>>, <<>>)
    ELSE IF ~in.lq /\ ~in.dtypeEq
      THEN Failure("unsupported: aten.matmul with different input element types",
                   <<>>, <<>>)
    ELSE IF in.lq /\ ((lhsRank = 1 /\ rhsRank <= 2) \/ (lhsRank <= 2 /\ rhsRank = 1))
      THEN MatmulQuantizedVector(in, ub, pre)
    ELSE IF lhsRank = 1 /\ rhsRank = 1
      THEN small(<<DimQuery("lhs", lhs, 0), DimQuery("rhs", rhs, 0)>>, <<>>)
    ELSE IF lhsRank = 1 /\ rhsRank = 2
      THEN small(<<DimQuery("lhs", lhs, 0), DimQuery("rhs", rhs, 0),
                   DimQuery("rhs", rhs, 1)>>, <<rhs[2]>>)
    ELSE IF lhsRank = 2 /\ rhsRank = 1
      THEN small(<<DimQuery("lhs", lhs, 0), DimQuery("lhs", lhs, 1),
                   DimQuery("rhs", rhs, 0)>>, <<lhs[1]>>)
    ELSE IF lhsRank = 2 /\ rhsRank = 2
      THEN small(<<DimQuery("lhs", lhs, 0), DimQuery("lhs", lhs, 1),
                   DimQuery("rhs", rhs, 0), DimQuery("rhs", rhs, 1)>>,
                 <<lhs[1], rhs[2]>>)
    ELSE IF lhsRank > 1 /\ rhsRank > 1
      THEN MatmulBatched(in, pre)
    ELSE [Failure("", pre, <<>>)
            EXCEPT !.shifted = IF in.lq THEN ShiftedOperands(in) ELSE <<>>]

\* Type elementType = resultType.getElementType(): every arm allocates its
\* accumulator with the element type of the declared result and casts the
\* primitive's result to the result type
ConvertAtenMatmulOp(in, ub) ==
    LET r == MatmulArms(in, ub)
    IN  IF r.status = "success" THEN [r EXCEPT !.accElem = in.resultType] ELSE r

\* the operator instances presented to aten.matmul: operands of every rank
\* up to MaxRank; `dyn` leading batch dimensions of the result type are
\* dynamic
MatmulRanks == 0..MaxRank

MatmulDyn(lhs, rhs) ==
    LET batchRank == Max(Len(lhs), Len(rhs)) - 2 IN
    IF Len(lhs) > 1 /\ Len(rhs) > 1 /\ batchRank >= 1
      THEN 0..Min(batchRank, 2) ELSE {0}

\* what an out-of-range dimension query can do: 0 stops the compiler, any
\* other number is the extent the query yields
OutOfRangeOutcomes(in) ==
    IF in.lq /\ in.rq /\ (Len(in.lhs) = 0 \/ Len(in.rhs) = 0) THEN {0, 1, 2}
    ELSE {1}

AtenMatmul ==
    /\ phase = "pending"
    /\ \E typesOk \in BOOLEAN, lhs \in LhsShapes(MatmulRanks),
          rhs \in RhsShapes(MatmulRanks), q \in Quantizations,
          dtypeEq \in BOOLEAN, strict \in BOOLEAN,
          lzp \in LhsZeroPoints, rzp \in RhsZeroPoints, bits \in ElementBits,
          resultType \in ResultElementTypes :
       \E dyn \in MatmulDyn(lhs, rhs) :
          LET in == OperandInput("aten.matmul", typesOk, lhs, rhs, q, dtypeEq,
                                   strict, dyn, lzp, rzp, bits, resultType)
          IN  \E ub \in OutOfRangeOutcomes(in) :
              /\ inp' = in
              /\ res' = ConvertAtenMatmulOp(in, ub)
    /\ phase' = "done"
    /\ opname' = "aten.matmul"

NextMatmul == AtenMatmul \/ NextOp

SpecMatmul == Init /\ [][NextMatmul]_vars


(***************************************************************************)
(* ConvertAtenBmmOp::matchAndRewrite                                       *)
(***************************************************************************)
\* element types of the operands and of the result of aten.bmm
BmmElementTypes == {"f16", "f32", "f64"}

\* the element type of lhs and rhs after "convert the inputs element type
\* equivalent to the result' element type"
BmmHarmonised(lhsElementType, rhsElementType, resultElementType) ==
    IF lhsElementType # rhsElementType
      THEN IF lhsElementType # resultElementType
             THEN <<resultElementType, rhsElementType>>
             ELSE <<lhsElementType, resultElementType>>
      ELSE <<lhsElementType, rhsElementType>>

ConvertAtenBmmOp(in) ==
    LET lhs == in.lhs
        rhs == in.rhs
        conv == IF in.lhsElementType # in.rhsElementType
                  THEN <<"convertTensorToElementType">> ELSE <<>>
        qs == <<DimQuery("lhs", lhs, 0), DimQuery("lhs", lhs, 1),
                DimQuery("lhs", lhs, 2), DimQuery("rhs", rhs, 0),
                DimQuery("rhs", rhs, 1), DimQuery("rhs", rhs, 2)>>
    IN
    IF ~in.typesOk THEN Failure("verifyLinalgCompatibleTypes", <<>>, <<>>)
    ELSE IF Len(lhs) # 3 \/ Len(rhs) # 3
      THEN Failure("expected both operands to aten.bmm to be rank 3", <<>>, <<>>)
    ELSE [NoResult EXCEPT
            !.status = "success",
            !.emitted = conv \o [k \in 1..6 |-> "tensor.dim"]
                             \o checkDimEqualHelper(in.strict)
                             \o checkDimEqualHelper(in.strict)
                             \o <<"createZeroInitTensor", "linalg.batch_matmul",
                                  "tensor.cast">>,
            !.dimq = qs,
            !.acc = <<lhs[1], lhs[2], rhs[3]>>,
            !.prim = "linalg.batch_matmul",
            !.values = BmmHarmonised(in.lhsElementType, in.rhsElementType,
                                     in.resultElementType),
            !.resRank = 3]

\* ranks of the operands presented to aten.bmm
BmmRanks == {2, 3}

AtenBmm ==
    /\ phase = "pending"
    /\ \E typesOk \in BOOLEAN, lhs \in LhsShapes(BmmRanks),
          rhs \in RhsShapes(BmmRanks), strict \in BOOLEAN,
          lt \in BmmElementTypes, rt \in BmmElementTypes,
          resT \in BmmElementTypes :
          LET in == [kind |-> "aten.bmm", typesOk |-> typesOk, lhs |-> lhs,
                     rhs |-> rhs, strict |-> strict, lhsElementType |-> lt,
                     rhsElementType |-> rt, resultElementType |-> resT]
          IN  /\ inp' = in
              /\ res' = ConvertAtenBmmOp(in)
    /\ phase' = "done"
    /\ opname' = "aten.bmm"

NextBmm == AtenBmm \/ NextOp

SpecBmm == Init /\ [][NextBmm]_vars


(***************************************************************************)
(* ConvertAtenConvolutionOp::matchAndRewrite                               *)
(***************************************************************************)
kUnknownSize == -1

\* static_cast<bool>(inputZp) != static_cast<bool>(weightZp)
ConvMixedQuantization(iq, wq) == iq # wq

\* torch_to_linalg::getOutputDimForConvOps:
\* floor((in + 2*padding - dilation*(kernelSize-1) - 1) / stride) + 1
getOutputDimForConvOps(in, padding, dilation, kernelSize, stride) ==
    ((in + 2 * padding - dilation * (kernelSize - 1) - 1) \div stride) + 1

\* torch_to_linalg::getOutputDimForConvTransposeOps:
\* (in-1)*stride - 2*padding + dilation*(kernelSize-1) + outputPadding + 1
getOutputDimForConvTransposeOps(in, padding, dilation, kernelSize, stride, outputPadding) ==
    (in - 1) * stride - 2 * padding + dilation * (kernelSize - 1)
        + outputPadding + 1

\* variant of ConvForwardOutDims that takes the spatial extents of the padded
\* input
ConvForwardOutDimsPadded(in) ==
    <<in.inBatch, in.weightBatch>>
        \o [i \in 1..Len(in.dims) |->
              getOutputDimForConvOps(in.dims[i].in + 2 * in.dims[i].padding,
                                     in.dims[i].padding, in.dims[i].dilation,
                                     in.dims[i].kernel, in.dims[i].stride)]

\* SmallVector<Value> outDims{inBatch, weightBatch}; then, not transposed,
\* outDims.push_back(getOutputDimForConvOps(inDims[i], paddingIntValues[i],
\*   dilationIntValues[i], weightDims[i], strideIntValues[i]))
ConvForwardOutDims(in) ==
    <<in.inBatch, in.weightBatch>>
        \o [i \in 1..Len(in.dims) |->
              getOutputDimForConvOps(in.dims[i].in, in.dims[i].padding,
                                     in.dims[i].dilation, in.dims[i].kernel,
                                     in.dims[i].stride)]

\* transposed: outDims[1] = weightInitDims[0] after the swap of the first
\* two weight extents, then getOutputDimForConvTransposeOps per dimension
ConvTransposedOutDims(in) ==
    <<in.inBatch, in.weightChannels>>
        \o [i \in 1..Len(in.dims) |->
              getOutputDimForConvTransposeOps(
                  in.dims[i].in, in.dims[i].padding, in.dims[i].dilation,
                  in.dims[i].kernel, in.dims[i].stride,
                  in.dims[i].outputPadding)]

\* transposed: offset = (weightDims[i] - 1) * dilation - padding
ConvTransposedOffsets(in) ==
    [i \in 1..Len(in.dims) |->
        (in.dims[i].kernel - 1) * in.dims[i].dilation - in.dims[i].padding]

\* variant of ConvTransposedOuterSizes that leaves the output padding out
ConvTransposedOuterSizesUnpadded(in) ==
    [i \in 1..Len(in.dims) |->
        ConvTransposedOffsets(in)[i] * 2
            + ((in.dims[i].in - 1) * in.dims[i].stride + 1)]

\* transposed: innerSize = (inDims[i] - 1) * stride + 1 and
\* outerSize = offset * 2 + innerSize + outputPadding
ConvTransposedOuterSizes(in) ==
    [i \in 1..Len(in.dims) |->
        ConvTransposedOffsets(in)[i] * 2
            + ((in.dims[i].in - 1) * in.dims[i].stride + 1)
            + in.dims[i].outputPadding]

\* transposed: strideIndexValues{c1, c1} followed by the strides, of which
\* the spatial part is kept
ConvTransposedInsertStrides(in) ==
    [i \in 1..Len(in.dims) |-> in.dims[i].stride]

\* the strides handed to the primitive: strideInts, cleared and set to 1 by
\* the transposed preparation
ConvStrides(in) ==
    IF in.transposed THEN [i \in 1..Len(in.dims) |-> 1]
    ELSE [i \in 1..Len(in.dims) |-> in.dims[i].stride]

\* the axes of a tensor of the given rank, in order
Axes(rank) == [i \in 1..rank |-> i - 1]

\* transposeValue: outShape.push_back(inShape[perms[i]]) for every i, so
\* axis i of the result is axis perms[i] of the value
transposeValue(inShape, perms) ==
    [i \in 1..Len(perms) |-> inShape[perms[i] + 1]]

\* the operations transposeValue creates (the tensor.dim of a dynamic extent
\* is not followed)
TransposeValueOps == <<"tensor.empty", "linalg.transpose">>

\* groups == 1, quantized: inPerms = [0, 2 .. n+1, 1] and
\* weightPerms = [2 .. n+1, 1, 0]
ConvInPerms(numSpatialDims) ==
    <<0>> \o [i \in 1..numSpatialDims |-> i + 1] \o <<1>>

ConvWeightPerms(numSpatialDims) ==
    [i \in 1..numSpatialDims |-> i + 1] \o <<1, 0>>

\* variant of ConvOutPerms that permutes the result as the input was
ConvOutPermsAsIn(numSpatialDims) == ConvInPerms(numSpatialDims)

\* outPerms = [0, inPerms.size() - 1, 1 .. n]
ConvOutPerms(numSpatialDims) ==
    <<0, Len(ConvInPerms(numSpatialDims)) - 1>>
        \o [i \in 1..numSpatialDims |-> i]

\* quantized depthwise: the same inPerms, weightPerms = [1 .. n, 0] for the
\* collapsed weight and resultPerms = [0, n+1, 1 .. n]
ConvDepthwiseWeightPerms(numSpatialDims) ==
    [i \in 1..numSpatialDims |-> i] \o <<0>>

ConvDepthwiseResultPerms(numSpatialDims) ==
    <<0, numSpatialDims + 1>> \o [i \in 1..numSpatialDims |-> i]

\* the direct, the quantized, the depthwise and the grouped primitives
ConvDirectPrimitive(numSpatialDims) ==
    IF numSpatialDims = 1 THEN "linalg.conv_1d_ncw_fcw"
    ELSE IF numSpatialDims = 2 THEN "linalg.conv_2d_nchw_fchw"
    ELSE IF numSpatialDims = 3 THEN "linalg.conv_3d_ncdhw_fcdhw"
    ELSE "none"

ConvQuantizedPrimitive(numSpatialDims) ==
    IF numSpatialDims = 2 THEN "linalg.conv_2d_nhwc_hwcf_q"
    ELSE IF numSpatialDims = 3 THEN "linalg.conv_3d_ndhwc_dhwcf_q"
    ELSE "none"

ConvDepthwisePrimitive(numSpatialDims) ==
    IF numSpatialDims = 1 THEN "linalg.depthwise_conv_1d_ncw_cw"
    ELSE IF numSpatialDims = 2 THEN "linalg.depthwise_conv_2d_nchw_chw"
    ELSE "none"

\* variant of ConvGroupedSupported that lets every spatial rank through
ConvGroupedSupportedAny(numSpatialDims) == TRUE

\* if (numSpatialDims != 2) return notifyMatchFailure(...), in front of the
\* grouped convolution
ConvGroupedSupported(numSpatialDims) == numSpatialDims = 2

\* variant of ConvIsDepthwise that never recognises the depthwise case
ConvIsDepthwiseNever(in) == FALSE

\* inShape[1] == numGroups && weightShape[0] == numGroups &&
\* weightShape[1] == 1, on the static shapes
ConvIsDepthwise(in) ==
    /\ in.inChannelsStatic = in.numGroups
    /\ in.weightBatchStatic = in.numGroups
    /\ in.weightChannels = 1


\* what the unwrapping of a quantized operand creates: the conversion of the
\* tensor and of its zero-point, and the truncation of the zero-point to i32
ConvUnwrapOps(quantized) ==
    IF quantized THEN <<"materialize", "materialize", "arith.trunci">> ELSE <<>>

\* the validate lambda: groups must divide the extent evenly
ConvValidateOps == <<"arith.constant", "arith.remsi", "arith.cmpi", "cf.assert">>

\* the padded input of a transposed convolution and the flipped weight
ConvTransposedOps(in) ==
    <<"arith.constant", "arith.constant", "arith.constant",
      "getTensorSizes", "createZeroInitTensor", "linalg.generic.flip">>
        \o Flatten([i \in 1..Len(in.dims) |->
              <<"arith.subi", "arith.muli", "arith.addi",
                "arith.subi", "arith.muli", "arith.subi",
                "arith.muli", "arith.addi", "arith.addi">>])
        \o <<"createInitTensor", "getTensorSizes", "tensor.insert_slice">>
        \o [i \in 1..Len(in.dims) |-> "getOutputDimForConvTransposeOps"]

ConvForwardOps(in) ==
    <<"getDynamicZeroPaddedTensor">>
        \o [i \in 1..Len(in.dims) |-> "getOutputDimForConvOps"]

\* if (accumulatorDType != resultDTy && !isa<Torch::NoneType>(bias.getType()))
\*   bias = convertTensorToElementType(bias, accumulatorDType);
\* otherwise the bias keeps the element type it came with
ConvBiasElem(in) ==
    IF in.accDiff \/ in.biasAccTyped THEN "accumulatorDType" ELSE "biasDTy"

\* for (int i = 0; i < resultRank; ++i) if (i != 1) addedDimensions.push_back(i)
ConvAddedDimensions(resultRank) ==
    SelectSeq(Axes(resultRank), LAMBDA i : i # 1)

\* the final conversion to the result element type and the cast
ConvFinishOps(in) ==
    (IF in.accDiff THEN <<"convertTensorToElementType">> ELSE <<>>)
        \o <<"tensor.cast">>

\* paddingIntValues[i], outputPaddingIntValues[i], strideIntValues[i] and
\* dilationIntValues[i] are read for every i < numSpatialDims; in.shortList
\* names the list that has one element less than that.  The output padding
\* is read by the transposed preparation only.
ConvListReadOutOfRange(in) ==
    \/ in.shortList \in {"padding", "stride", "dilation"}
    \/ in.shortList = "outputPadding" /\ in.transposed

\* the parameters as the lowering reads them; `g` is what the read past the
\* end of the short list yields
ConvListsRead(in, g) ==
    LET n == Len(in.dims)
    IN  IF ~ConvListReadOutOfRange(in) \/ n = 0 THEN in
        ELSE IF in.shortList = "padding"
          THEN [in EXCEPT !.dims[n].padding = g]
        ELSE IF in.shortList = "outputPadding"
          THEN [in EXCEPT !.dims[n].outputPadding = g]
        ELSE IF in.shortList = "stride"
          THEN [in EXCEPT !.dims[n].stride = g]
        ELSE [in EXCEPT !.dims[n].dilation = g]

\* expandWeight: inShape[0] / numGroups is computed while the lowering runs
\* unless inShape[0] == kUnknownSize
ConvGroupDivisionByZero(in) ==
    in.numGroups = 0 /\ in.weightBatchStatic # kUnknownSize

\* outShape{numGroups, inShape[0] == kUnknownSize ? kUnknownSize
\*   : inShape[0] / numGroups}; `g` is what a division by zero yields
ConvExpandedWeight(in, g) ==
    <<in.numGroups,
      IF in.weightBatchStatic = kUnknownSize THEN kUnknownSize
      ELSE IF in.numGroups = 0 THEN g
      ELSE in.weightBatchStatic \div in.numGroups>>

ConvLowering(in, ub, g) ==
    LET inRank == in.inRank
        \* size_t numSpatialDims = inRank - 2
        numSpatialDims == IF inRank >= 2 THEN inRank - 2 ELSE MaxI32
        quantized == in.iq
        hasBias == in.biasRank # 0
        e1 == ConvUnwrapOps(in.iq) \o ConvUnwrapOps(in.wq)
        e2 == e1 \o [i \in 1..Len(in.dims) |-> "materialize"]
        e3 == e2 \o [i \in 1..Len(in.dims) |-> "materialize"]
        \* getDimOp on every dimension of the input, then of the weight
        qs == [i \in 1..inRank |->
                 [operand |-> "input", rank |-> inRank, dim |-> i - 1]]
              \o [i \in 1..inRank |->
                    [operand |-> "weight", rank |-> inRank, dim |-> i - 1]]
        e4 == e3 \o [i \in 1..(2 * inRank) |-> "tensor.dim"]
        e5 == e4 \o <<"arith.index_cast">> \o ConvValidateOps \o ConvValidateOps
                 \o [i \in 1..(2 * Len(in.dims)) |-> "arith.constant"]
                 \o signShiftOps(in.iu) \o signShiftOps(in.wu)
                 \o (IF ~quantized THEN <<"arith.constant">> ELSE <<"arith.trunci">>)
                 \o (IF in.transposed THEN ConvTransposedOps(in)
                     ELSE ConvForwardOps(in))
                 \o <<"tensor.empty">>
                 \o (IF in.accDiff /\ hasBias
                       THEN <<"convertTensorToElementType">> ELSE <<>>)
        outDims == IF in.transposed THEN ConvTransposedOutDims(in)
                   ELSE ConvForwardOutDims(in)
        e6 == e5 \o (IF hasBias THEN <<"linalg.broadcast">>
                     ELSE <<"arith.constant", "linalg.fill">>)
                 \o <<"arith.floordivsi", "arith.floordivsi",
                      "arith.constant", "arith.constant">>
        zps == <<signShiftZp(in.izp, in.iu, in.ibits),
                 signShiftZp(in.wzp, in.wu, in.wbits)>>
        prepared ==
            IF in.transposed
              THEN [NoResult EXCEPT
                      !.outerSizes = ConvTransposedOuterSizes(in),
                      !.offsets = ConvTransposedOffsets(in),
                      !.insertStrides = ConvTransposedInsertStrides(in)]
              ELSE NoResult
        done(ops, prim) ==
            [prepared EXCEPT
               !.status = "success",
               !.accInit = IF hasBias THEN "linalg.broadcast" ELSE "linalg.fill",
               !.addedDimensions =
                  IF hasBias THEN ConvAddedDimensions(Len(outDims)) ELSE <<>>,
               !.biasElem = IF hasBias THEN ConvBiasElem(in) ELSE "",
               !.emitted = e6 \o ops \o ConvFinishOps(in),
               !.dimq = qs,
               !.acc = outDims,
               !.prim = prim,
               !.primZps = IF quantized THEN zps ELSE <<>>,
               !.shifted = IF quantized THEN <<in.iu, in.wu>> ELSE <<>>,
               !.values = ConvStrides(in),
               !.resRank = inRank]
        fail(reason, ops) ==
            [Failure(reason, ops, qs) EXCEPT
               !.acc = outDims,
               !.outerSizes = prepared.outerSizes,
               !.offsets = prepared.offsets,
               !.insertStrides = prepared.insertStrides]
        crashed(ops) ==
            [NoResult EXCEPT !.status = "crash", !.emitted = ops, !.dimq = qs]
    IN
    IF ConvMixedQuantization(in.iq, in.wq)
      THEN Failure("lhs and rhs of convolution must either be both int or fp",
                   e1, <<>>)
    ELSE IF quantized /\ hasBias /\ ~in.biasI32
      THEN Failure("quantized result ty should be i32 accumulator", e1, <<>>)
    ELSE IF ~in.transposedConst
      THEN Failure("unimplemented: only constant transposed supported", e1, <<>>)
    ELSE IF ~in.dtypeOk
      THEN Failure("unimplemented: non-fp not-int type", e1, <<>>)
    ELSE IF numSpatialDims < 1 \/ numSpatialDims > 3
      THEN Failure("unimplemented: only 1d-3d convolution currently supported",
                   e1, <<>>)
    ELSE IF ~in.paddingList
      THEN Failure("only support padding from a list construct", e1, <<>>)
    ELSE IF ~in.outputPaddingList
      THEN Failure("only support output_padding from a list construct", e2, <<>>)
    ELSE IF ~in.strideConst
      THEN Failure("only support constant int strides", e3, <<>>)
    ELSE IF ~in.dilationConst
      THEN Failure("only support constant int dilations", e3, <<>>)
    ELSE IF ~in.groupsConst
      THEN Failure("only constant group size supported.", e4, qs)
    ELSE IF ConvListReadOutOfRange(in) /\ ub = "crash" THEN crashed(e4)
    ELSE IF hasBias /\ in.biasRank # 1
      THEN fail("expect bias to be rank 1", e5)
    ELSE IF in.numGroups = 1 /\ ~quantized
      THEN done(<<ConvDirectPrimitive(numSpatialDims)>>,
                ConvDirectPrimitive(numSpatialDims))
    ELSE IF in.numGroups = 1 /\ quantized
      THEN IF numSpatialDims \in {2, 3}
             THEN [done(TransposeValueOps \o TransposeValueOps
                          \o TransposeValueOps
                          \o <<ConvQuantizedPrimitive(numSpatialDims)>>
                          \o TransposeValueOps,
                        ConvQuantizedPrimitive(numSpatialDims))
                   EXCEPT
                     !.perms = <<ConvInPerms(numSpatialDims),
                                 ConvWeightPerms(numSpatialDims),
                                 ConvOutPerms(numSpatialDims)>>,
                     !.layout =
                        transposeValue(
                           transposeValue(Axes(inRank),
                                          ConvInPerms(numSpatialDims)),
                           ConvOutPerms(numSpatialDims))]
             ELSE [fail("unimplemented: only 1D, 2D, and 3D convolution supported",
                        e6 \o TransposeValueOps \o TransposeValueOps
                           \o TransposeValueOps)
                   EXCEPT
                     !.perms = <<ConvInPerms(numSpatialDims),
                                 ConvWeightPerms(numSpatialDims)>>,
                     !.layout = transposeValue(Axes(inRank),
                                               ConvInPerms(numSpatialDims))]
    ELSE IF ConvIsDepthwise(in)
      THEN IF ~quantized
             THEN IF numSpatialDims \in {1, 2}
                    THEN done(<<"tensor.collapse_shape",
                                ConvDepthwisePrimitive(numSpatialDims)>>,
                              ConvDepthwisePrimitive(numSpatialDims))
                    ELSE fail("unimplemented: only 1D and 2D depthwise convolution supported for special case of group convolution",
                              e6 \o <<"tensor.collapse_shape">>)
             ELSE IF numSpatialDims # 2
                    THEN fail("unimplemented: only 2D depthwise quantized convolution supported for special case of group convolution",
                              e6 \o <<"tensor.collapse_shape">>)
                    ELSE [done(<<"tensor.collapse_shape">>
                                 \o TransposeValueOps \o TransposeValueOps
                                 \o TransposeValueOps
                                 \o <<"linalg.depthwise_conv_2d_nhwc_hwc_q">>
                                 \o TransposeValueOps,
                               "linalg.depthwise_conv_2d_nhwc_hwc_q")
                          EXCEPT
                            !.perms =
                               <<ConvInPerms(numSpatialDims),
                                 ConvDepthwiseWeightPerms(numSpatialDims),
                                 ConvDepthwiseResultPerms(numSpatialDims)>>,
                            !.layout =
                               transposeValue(
                                  transposeValue(Axes(inRank),
                                                 ConvInPerms(numSpatialDims)),
                                  ConvDepthwiseResultPerms(numSpatialDims))]
    ELSE IF ~ConvGroupedSupported(numSpatialDims)
      THEN fail("unimplemented: only 2D grouped convolution supported", e6)
    ELSE IF ConvGroupDivisionByZero(in) /\ ub = "crash" THEN crashed(e6)
    ELSE IF ~quantized
      THEN [done(<<"tensor.expand_shape", "tensor.expand_shape",
                   "tensor.expand_shape", "linalg.conv_2d_ngchw_gfchw",
                   "tensor.collapse_shape">>, "linalg.conv_2d_ngchw_gfchw")
            EXCEPT !.groupShape = ConvExpandedWeight(in, g)]
    ELSE [done(<<"tensor.expand_shape", "tensor.expand_shape",
                 "tensor.expand_shape", "linalg.conv_2d_ngchw_gfchw_q",
                 "tensor.collapse_shape">>, "linalg.conv_2d_ngchw_gfchw_q")
          EXCEPT !.groupShape = ConvExpandedWeight(in, g)]

\* the lowering works on the parameters as it reads them
ConvertAtenConvolutionOp(in, ub, g) == ConvLowering(ConvListsRead(in, g), ub, g)


\* one spatial dimension of a convolution: extents of input and kernel, and
\* the parameters at that position
ConvDimConfigs ==
    {[in |-> 10, kernel |-> 3, padding |-> 1, dilation |-> 1, stride |-> 2,
      outputPadding |-> 0],
     [in |-> 8, kernel |-> 2, padding |-> 0, dilation |-> 2, stride |-> 1,
      outputPadding |-> 0],
     [in |-> 5, kernel |-> 3, padding |-> 2, dilation |-> 1, stride |-> 3,
      outputPadding |-> 1]}

\* largest extent and parameter of the transposed convolutions of one
\* spatial dimension presented with every combination of parameters
ConvMaxParam == 3

ConvDimSweep ==
    [in : 1..ConvMaxParam, kernel : 1..ConvMaxParam,
     padding : 0..(ConvMaxParam - 1), dilation : 1..(ConvMaxParam - 1),
     stride : 1..ConvMaxParam, outputPadding : 0..1]

\* group count and channel extents: ungrouped, depthwise, grouped, input
\* channels = groups with more output channels, dynamic input channels, one
\* group of one channel
ConvChannelConfigs ==
    {[numGroups |-> 1, inChannelsStatic |-> 4, weightBatch |-> 8,
      weightBatchStatic |-> 8, weightChannels |-> 4],
     [numGroups |-> 4, inChannelsStatic |-> 4, weightBatch |-> 4,
      weightBatchStatic |-> 4, weightChannels |-> 1],
     [numGroups |-> 2, inChannelsStatic |-> 4, weightBatch |-> 8,
      weightBatchStatic |-> 8, weightChannels |-> 2],
     [numGroups |-> 4, inChannelsStatic |-> 4, weightBatch |-> 8,
      weightBatchStatic |-> 8, weightChannels |-> 1],
     [numGroups |-> 4, inChannelsStatic |-> kUnknownSize, weightBatch |-> 4,
      weightBatchStatic |-> 4, weightChannels |-> 1],
     [numGroups |-> 1, inChannelsStatic |-> 1, weightBatch |-> 1,
      weightBatchStatic |-> 1, weightChannels |-> 1],
     [numGroups |-> 0, inChannelsStatic |-> 4, weightBatch |-> 8,
      weightBatchStatic |-> 8, weightChannels |-> 4],
     [numGroups |-> 0, inChannelsStatic |-> 4, weightBatch |-> 8,
      weightBatchStatic |-> kUnknownSize, weightChannels |-> 4]}

\* the parameter list that is one element short of the spatial dimensions;
\* the input is recorded with the parameters as the lowering read them
ConvShortLists == {"none", "padding", "outputPadding", "stride", "dilation"}

\* what a read past the end of a list or a division by zero may lead to:
\* the lowering stops, or goes on with some value
ConvOutcomes(in) ==
    IF ConvListReadOutOfRange(in) \/ ConvGroupDivisionByZero(in)
      THEN {[ub |-> "crash", g |-> 1]}
              \cup {[ub |-> "proceed", g |-> g] : g \in {1, 2}}
      ELSE {[ub |-> "none", g |-> 1]}

\* the parameter that is not the compile-time constant it has to be
ConvDefects ==
    {"none", "transposed", "dtype", "padding", "outputPadding", "stride",
     "dilation", "groups"}

\* which operands are quantized, and the signedness of the quantized type
ConvQuantizations ==
    {[iq |-> FALSE, wq |-> FALSE, iu |-> FALSE, wu |-> FALSE],
     [iq |-> TRUE,  wq |-> FALSE, iu |-> FALSE, wu |-> FALSE],
     [iq |-> FALSE, wq |-> TRUE,  iu |-> FALSE, wu |-> FALSE],
     [iq |-> TRUE,  wq |-> TRUE,  iu |-> FALSE, wu |-> FALSE],
     [iq |-> TRUE,  wq |-> TRUE,  iu |-> TRUE,  wu |-> FALSE],
     [iq |-> TRUE,  wq |-> TRUE,  iu |-> TRUE,  wu |-> TRUE]}

\* rank and i32-ness of the bias, and whether its element type is
\* accumulatorDType; rank 0 is no bias
ConvBiases ==
    {[rank |-> 0, i32 |-> FALSE, accTyped |-> TRUE],
     [rank |-> 1, i32 |-> TRUE, accTyped |-> TRUE],
     [rank |-> 1, i32 |-> FALSE, accTyped |-> TRUE],
     [rank |-> 1, i32 |-> FALSE, accTyped |-> FALSE],
     [rank |-> 2, i32 |-> TRUE, accTyped |-> TRUE]}

\* ranks of the input presented to aten.convolution
ConvInputRanks == 1..6

ConvInput(inRank, dims, q, bias, transposed, ch, defect, accDiff, strict, short) ==
    [kind |-> "aten.convolution", inRank |-> inRank, dims |-> dims,
     shortList |-> short,
     iq |-> q.iq, wq |-> q.wq, iu |-> q.iu, wu |-> q.wu,
     izp |-> 131, wzp |-> 7, ibits |-> 8, wbits |-> 8,
     biasRank |-> bias.rank, biasI32 |-> bias.i32,
     biasAccTyped |-> bias.accTyped,
     transposed |-> transposed,
     transposedConst |-> defect # "transposed",
     dtypeOk |-> defect # "dtype",
     paddingList |-> defect # "padding",
     outputPaddingList |-> defect # "outputPadding",
     strideConst |-> defect # "stride",
     dilationConst |-> defect # "dilation",
     groupsConst |-> defect # "groups",
     numGroups |-> ch.numGroups,
     inBatch |-> 2,
     inChannelsStatic |-> ch.inChannelsStatic,
     weightBatch |-> ch.weightBatch,
     weightBatchStatic |-> ch.weightBatchStatic,
     weightChannels |-> ch.weightChannels,
     accDiff |-> accDiff, strict |-> strict]

\* the parameters per spatial dimension: the configurations at every spatial
\* rank and, where `swept`, every combination of parameters in one dimension
ConvDimLists(inRank, swept) ==
    [1..(IF inRank >= 2 THEN inRank - 2 ELSE 0) -> ConvDimConfigs]
        \cup (IF swept /\ inRank = 3 THEN {<<d>> : d \in ConvDimSweep} ELSE {})

AtenConvolution ==
    /\ phase = "pending"
    /\ \E inRank \in ConvInputRanks, q \in ConvQuantizations,
          bias \in ConvBiases, transposed \in BOOLEAN,
          ch \in ConvChannelConfigs, defect \in ConvDefects,
          accDiff \in BOOLEAN, strict \in BOOLEAN, short \in ConvShortLists :
       LET swept == /\ transposed /\ ~q.iq /\ ~q.wq
                    /\ bias.rank = 0 /\ ch.numGroups = 1 /\ ch.weightBatch = 8
                    /\ defect = "none" /\ ~accDiff /\ ~strict
                    /\ short = "none"
       IN  /\ defect # "none" => (~accDiff /\ ~strict /\ bias.accTyped)
           /\ (short # "none" \/ ch.numGroups = 0)
                => /\ bias.rank = 0 /\ defect = "none" /\ ~accDiff /\ ~strict
                   /\ q.iq = q.wq /\ ~q.iu /\ ~q.wu
           /\ short # "none" => (ch.numGroups = 1 /\ ch.weightBatch = 8 /\ ~q.iq)
           /\ \E dims \in ConvDimLists(inRank, swept) :
                 LET in == ConvInput(inRank, dims, q, bias, transposed, ch,
                                     defect, accDiff, strict, short)
                 IN  \E o \in ConvOutcomes(in) :
                        /\ inp' = ConvListsRead(in, o.g)
                        /\ res' = ConvertAtenConvolutionOp(in, o.ub, o.g)
    /\ phase' = "done"
    /\ opname' = "aten.convolution"

NextConvolution == AtenConvolution \/ NextOp

SpecConvolution == Init /\ [][NextConvolution]_vars

(***************************************************************************)
(* ConvertAten_TrilinearOp::matchAndRewrite                                *)
(***************************************************************************)
\* longest 1-D operand whose elements are followed through the emitted ops
TriMaxLen == 3

\* SmallVector<bool> flags(totalDims, false);
\* for (int64_t dim : list) flags[dim] = true;
\* as far as the positions inside the vector go
TriFlags(list, totalDims) ==
    [d \in 0..(totalDims - 1) |-> \E j \in 1..Len(list) : list[j] = d]

\* some flags[dim] = true lands outside the vector
TriListOutOfRange(list, totalDims) ==
    \E j \in 1..Len(list) : list[j] < 0 \/ list[j] >= totalDims

\* flags[d] read at any d; `gb` is what a read outside the vector yields
TriFlagAt(flags, d, totalDims, gb) ==
    IF 0 <= d /\ d < totalDims THEN flags[d] ELSE gb

\* size = i1Shape[i] if i1 is not expanded at i, overwritten by i2Shape[i]
\* if i2 is not, overwritten by i3Shape[i] if i3 is not; 0 if all three are
\* expanded.  `g` is what a read past the end of a shape yields.
TriSize(in, e1, e2, e3, i, g) ==
    IF ~e3[i] THEN DimValue(in.i3Shape, i, g)
    ELSE IF ~e2[i] THEN DimValue(in.i2Shape, i, g)
    ELSE IF ~e1[i] THEN DimValue(in.i1Shape, i, g)
    ELSE 0

\* some iXShape[i] is read with i >= rank(iX)
TriShapeReadOutOfRange(in, e1, e2, e3, totalDims) ==
    \E i \in 0..(totalDims - 1) :
        \/ ~e1[i] /\ i >= Len(in.i1Shape)
        \/ ~e2[i] /\ i >= Len(in.i2Shape)
        \/ ~e3[i] /\ i >= Len(in.i3Shape)

\* the dimensions 0..i in order
TriDimsUpTo(i) == [j \in 1..(i + 1) |-> j - 1]

\* if (expand3Flags[i]) { ...; if (sumDimFlags[i] && (i != unrollDim))
\*   sumDims12.push_back(i); }, after the iterations 0..i
TriSumDims12(e3, sum, unrollDim, i) ==
    SelectSeq(TriDimsUpTo(i), LAMBDA d : e3[d] /\ sum[d] /\ d # unrollDim)

\* variant of TriSumDims23 that does not look at the expansion of i3
TriSumDims23Any(e3, sum, unrollDim, i) ==
    SelectSeq(TriDimsUpTo(i), LAMBDA d : sum[d] /\ d # unrollDim)

\* else { ...; if (sumDimFlags[i] && (i != unrollDim))
\*   sumDims23.push_back(i); }, after the iterations 0..i
TriSumDims23(e3, sum, unrollDim, i) ==
    SelectSeq(TriDimsUpTo(i), LAMBDA d : ~e3[d] /\ sum[d] /\ d # unrollDim)

\* one reduction: the index constant and the aten.sum
TriSumOps(n) == Flatten([j \in 1..n |-> <<"arith.constant", "aten.sum">>])

\* one iteration of the loop over k: the slices of the three operands, the
\* two multiplications with their reductions, and the accumulation (into
\* a slice of the output when the unroll dimension is not summed)
TriStepOps(n12, n23, summed) ==
    (IF summed THEN <<>> ELSE <<"arith.constant">>)
        \o <<"arith.constant", "arith.constant", "arith.constant",
             "arith.constant", "aten.narrow", "aten.narrow", "aten.narrow",
             "aten.mul.Tensor">>
        \o TriSumOps(n12)
        \o <<"aten.mul.Tensor">>
        \o TriSumOps(n23)
        \o (IF summed THEN <<"aten.add.Tensor">>
            ELSE <<"aten.narrow", "aten.add.Tensor">>)

\* the squeezes that close an iteration of the loop over the dimensions:
\* for (i = outputRank - 1; i >= 0; --i) if (sumDimFlags[i]) squeeze
TriSqueezeDims(sum, outputRank) ==
    LET down == [j \in 1..outputRank |-> outputRank - j]
    IN  SelectSeq(down, LAMBDA d : sum[d])

\* unrollSize after the iterations 0..i
TriUnrollSize(in, e1, e2, e3, i, g) ==
    IF 0 <= in.unrollDim /\ in.unrollDim <= i
      THEN TriSize(in, e1, e2, e3, in.unrollDim, g)
      ELSE -1

\* the start indices k * slicemul of the three slices
TriSliceStarts(k, x1, x2, x3) ==
    <<k * (IF x1 THEN 0 ELSE 1), k * (IF x2 THEN 0 ELSE 1),
      k * (IF x3 THEN 0 ELSE 1)>>

\* the constructs created by iteration i of the loop over the dimensions:
\* the index constant, the unsqueeze of every operand expanded at i, the
\* empty output, the unrolled loop over k and the squeezes
TriDimOps(in, e1, e2, e3, sum, totalDims, i, g, gb) ==
    LET unrollSize == TriUnrollSize(in, e1, e2, e3, i, g)
        summed == TriFlagAt(sum, in.unrollDim, totalDims, gb)
        n12 == Len(TriSumDims12(e3, sum, in.unrollDim, i))
        n23 == Len(TriSumDims23(e3, sum, in.unrollDim, i))
        steps ==
            IF Len(in.i1Shape) # 0 /\ Len(in.i2Shape) # 0 /\ Len(in.i3Shape) # 0
              THEN Flatten([k \in 1..Max(unrollSize, 0) |->
                              TriStepOps(n12, n23, summed)])
              ELSE <<>>
    IN  <<"torch.constant.int">>
            \o (IF e1[i] THEN <<"aten.unsqueeze">> ELSE <<>>)
            \o (IF e2[i] THEN <<"aten.unsqueeze">> ELSE <<>>)
            \o (IF e3[i] THEN <<"aten.unsqueeze">> ELSE <<>>)
            \o <<"tensor.empty", "arith.constant">>
            \o steps
            \o Flatten([j \in 1..Len(TriSqueezeDims(sum, i + 1)) |->
                          <<"arith.constant", "aten.squeeze.dim">>])

\* the k of the steps in the order of their creation: the loop over k sits
\* inside the loop over the dimensions, so it is gone through once in every
\* iteration i in which unrollSize has been set
TriUnrollSteps(in, e1, e2, e3, totalDims, g) ==
    IF Len(in.i1Shape) # 0 /\ Len(in.i2Shape) # 0 /\ Len(in.i3Shape) # 0
      THEN Flatten([j \in 1..totalDims |->
                      [k \in 1..Max(TriUnrollSize(in, e1, e2, e3, j - 1, g), 0)
                         |-> k - 1]])
      ELSE <<>>

\* the k whose mulResult is an operand, directly or not, of the value that
\* replaces the operator.  Every iteration i starts from a new tensor.empty,
\* so only the steps of the last one count.  Summed unroll dimension:
\* output = AtenAddTensorOp(output, mulResult) chains every product.
\* Otherwise: output = AtenNarrowOp(output, ...) and the AtenAddTensorOp that
\* takes mulResult is created without its result being taken.
TriDependsOn(in, unrollSize, summed) ==
    IF Len(in.i1Shape) # 0 /\ Len(in.i2Shape) # 0 /\ Len(in.i3Shape) # 0
         /\ summed
      THEN 0..(unrollSize - 1)
      ELSE {}

\* an operand after its unsqueezes: every AtenUnsqueezeOp is created with
\* the index constant 0, so each puts its unit dimension in front
TriUnsqueezed(shape, flags, totalDims) ==
    [j \in 1..Cardinality({d \in 0..(totalDims - 1) : flags[d]}) |-> 1] \o shape

RECURSIVE SumSeq(_)
SumSeq(s) == IF s = <<>> THEN 0 ELSE Head(s) + SumSeq(Tail(s))

\* the operands whose elements are followed: three 1-D tensors of one
\* shape, nothing expanded, unrolled along dimension 0
TriTracked(in) ==
    /\ Len(in.i1Shape) = 1 /\ in.i2Shape = in.i1Shape /\ in.i3Shape = in.i1Shape
    /\ in.expand1 = <<>> /\ in.expand2 = <<>> /\ in.expand3 = <<>>
    /\ in.unrollDim = 0 /\ in.sumDim \in {<<>>, <<0>>}

\* what the emitted ops compute for such operands.  The output starts as a
\* tensor.empty of extent n, whose contents are in.uninit.
\* Summed unroll dimension: every step adds the one-element product of the
\* three slices to the whole output (broadcast), and the closing
\* aten.squeeze.dim removes dimension 0 only if its extent is 1.
\* Otherwise: every step replaces the output by its slice [k, k+1) and
\* creates an aten.add.Tensor whose result is not used; from k = 1 on the
\* slice is taken of a tensor of extent 1.
TriValues(in) ==
    LET n == in.i1Shape[1]
        total == SumSeq([k \in 1..n |-> in.i1[k] * in.i2[k] * in.i3[k]])
    IN  IF in.sumDim = <<0>>
          THEN [runtime |-> "value",
                values |-> [j \in 1..n |-> in.uninit[j] + total],
                rank |-> IF n = 1 THEN 0 ELSE 1]
        ELSE IF n = 1
          THEN [runtime |-> "value", values |-> <<in.uninit[1]>>, rank |-> 1]
        ELSE [runtime |-> "trap", values |-> <<>>, rank |-> 1]

\* some subscript of the lowering is outside what it indexes, or there is
\* no dimension at all and the operator is replaced by a null value
TriOutOfRange(in) ==
    LET totalDims == Len(in.i1Shape) + Len(in.expand1)
    IN  \/ totalDims = 0
        \/ TriListOutOfRange(in.expand1, totalDims)
        \/ TriListOutOfRange(in.expand2, totalDims)
        \/ TriListOutOfRange(in.expand3, totalDims)
        \/ TriListOutOfRange(in.sumDim, totalDims)
        \/ in.unrollDim < 0 \/ in.unrollDim >= totalDims
        \/ TriShapeReadOutOfRange(in, TriFlags(in.expand1, totalDims),
                                  TriFlags(in.expand2, totalDims),
                                  TriFlags(in.expand3, totalDims), totalDims)

ConvertAten_TrilinearOp(in, ub, g, gb) ==
    LET totalDims == Len(in.i1Shape) + Len(in.expand1)
        e1 == TriFlags(in.expand1, totalDims)
        e2 == TriFlags(in.expand2, totalDims)
        e3 == TriFlags(in.expand3, totalDims)
        sum == TriFlags(in.sumDim, totalDims)
        last == totalDims - 1
        unrollSize == TriUnrollSize(in, e1, e2, e3, last, g)
        ranked == Len(in.i1Shape) # 0 /\ Len(in.i2Shape) # 0
                     /\ Len(in.i3Shape) # 0
        v == IF TriTracked(in) THEN TriValues(in)
             ELSE [runtime |-> "untracked", values |-> <<>>, rank |-> -1]
    IN
    IF ~in.expand1Const THEN Failure("expand1 should be constant", <<>>, <<>>)
    ELSE IF ~in.expand2Const
      THEN Failure("expand2 should be constant", <<>>, <<>>)
    ELSE IF ~in.expand3Const
      THEN Failure("expand3 should be constant", <<>>, <<>>)
    ELSE IF ~in.sumDimConst THEN Failure("sumDim should be constant", <<>>, <<>>)
    ELSE IF ~in.unrollDimConst
      THEN Failure("unrollDim should be constant", <<>>, <<>>)
    ELSE IF TriOutOfRange(in) /\ ub = "crash"
      THEN [NoResult EXCEPT !.status = "crash"]
    ELSE [NoResult EXCEPT
            !.status = "success",
            !.emitted = Flatten([j \in 1..totalDims |->
                           TriDimOps(in, e1, e2, e3, sum, totalDims, j - 1,
                                     g, gb)]),
            !.sumDims12 = TriSumDims12(e3, sum, in.unrollDim, last),
            !.sumDims23 = TriSumDims23(e3, sum, in.unrollDim, last),
            !.outputShape = [j \in 1..totalDims |->
                               TriSize(in, e1, e2, e3, j - 1, g)],
            !.unrollSize = unrollSize,
            !.operandShapes =
                <<TriUnsqueezed(in.i1Shape, e1, totalDims),
                  TriUnsqueezed(in.i2Shape, e2, totalDims),
                  TriUnsqueezed(in.i3Shape, e3, totalDims)>>,
            !.unrollSteps = TriUnrollSteps(in, e1, e2, e3, totalDims, g),
            !.dependsOn =
                TriDependsOn(in, unrollSize,
                             TriFlagAt(sum, in.unrollDim, totalDims, gb)),
            !.slices =
                IF ranked /\ totalDims > 0
                  THEN [k \in 1..Max(unrollSize, 0) |->
                          TriSliceStarts(k - 1,
                              TriFlagAt(e1, in.unrollDim, totalDims, gb),
                              TriFlagAt(e2, in.unrollDim, totalDims, gb),
                              TriFlagAt(e3, in.unrollDim, totalDims, gb))]
                  ELSE <<>>,
            !.values = v.values,
            !.resRank = v.rank,
            !.runtime = v.runtime]

\* shapes of the operands of aten._trilinear: the 1-D shapes whose elements
\* are followed, and the shapes combined freely with each other
TriShapes == {<<>>, <<2, 3>>} \cup {<<n>> : n \in 1..TriMaxLen}
TriMixedShapes == {<<>>, <<2>>, <<3>>, <<2, 3>>}

\* the expansion lists and the sum-dimension lists
TriExpandLists == {<<>>, <<0>>, <<1>>, <<2>>}
TriSumLists == {<<>>, <<0>>, <<1>>, <<0, 1>>, <<2>>}
TriUnrollDims == -1..2

\* the operand that is not the compile-time constant it has to be
TriDefects == {"none", "expand1", "expand2", "expand3", "sumdim", "unroll_dim"}

\* elements of the operands, and what a tensor.empty may hold
TriElems == {-1, 2}
TriUninit == {0, 5}

\* what an access outside a vector or a null replacement may lead to
TriOutcomes(in) ==
    IF TriOutOfRange(in)
      THEN {[ub |-> "crash", g |-> 0, gb |-> FALSE]}
              \cup {[ub |-> "proceed", g |-> g, gb |-> gb] :
                      g \in {0, 2}, gb \in BOOLEAN}
      ELSE {[ub |-> "none", g |-> 0, gb |-> FALSE]}

TriInput(s1, s2, s3, x1, x2, x3, sd, u, defect) ==
    [kind |-> "aten._trilinear",
     i1Shape |-> s1, i2Shape |-> s2, i3Shape |-> s3,
     expand1 |-> x1, expand2 |-> x2, expand3 |-> x3,
     sumDim |-> sd, unrollDim |-> u,
     expand1Const |-> defect # "expand1",
     expand2Const |-> defect # "expand2",
     expand3Const |-> defect # "expand3",
     sumDimConst |-> defect # "sumdim",
     unrollDimConst |-> defect # "unroll_dim",
     i1 |-> <<>>, i2 |-> <<>>, i3 |-> <<>>, uninit |-> <<>>]

Aten_Trilinear ==
    /\ phase = "pending"
    /\ \E s1 \in TriShapes, s2 \in TriShapes, s3 \in TriShapes,
          x1 \in TriExpandLists, x2 \in TriExpandLists, x3 \in TriExpandLists,
          sd \in TriSumLists, u \in TriUnrollDims, defect \in TriDefects :
       LET shape == TriInput(s1, s2, s3, x1, x2, x3, sd, u, defect)
           n == IF TriTracked(shape) THEN s1[1] ELSE 0
       IN  /\ defect # "none" => (x1 = <<>> /\ x2 = <<>> /\ x3 = <<>>)
           /\ TriTracked(shape) \/ {s1, s2, s3} \subseteq TriMixedShapes
           /\ \E i1 \in [1..n -> TriElems], i2 \in [1..n -> TriElems],
                 i3 \in [1..n -> TriElems], uninit \in [1..n -> TriUninit] :
              LET in == [shape EXCEPT !.i1 = i1, !.i2 = i2, !.i3 = i3,
                                      !.uninit = uninit]
              IN  \E o \in TriOutcomes(in) :
                     /\ inp' = in
                     /\ res' = ConvertAten_TrilinearOp(in, o.ub, o.g, o.gb)
    /\ phase' = "done"
    /\ opname' = "aten._trilinear"

NextTrilinear == Aten_Trilinear \/ NextOp

SpecTrilinear == Init /\ [][NextTrilinear]_vars


(***************************************************************************)
(* ConvertAtenFlipOp::matchAndRewrite                                      *)
(***************************************************************************)
\* toPositiveDim(dim, rank)
toPositiveDim(dim, rank) == IF dim >= 0 THEN dim ELSE dim + rank

\* isValidDim(dim, rank)
isValidDim(dim, rank) == dim >= 0 /\ dim < rank

\* variant of FlipDimsMatched that takes every dims operand for a list of
\* constants
FlipDimsMatchedAlways(in) == TRUE

\* matchPattern(adaptor.getDims(), m_TorchListOfConstantInts(axis))
FlipDimsMatched(in) == in.dimsConst

ConvertAtenFlipOp(in) ==
    LET axis == [i \in 1..Len(in.dims) |-> toPositiveDim(in.dims[i], in.selfRank)]
    IN  IF ~FlipDimsMatched(in)
          THEN Failure("only constant dim lists supported", <<>>, <<>>)
        ELSE IF \E i \in 1..Len(axis) : ~isValidDim(axis[i], in.selfRank)
          THEN Failure("axis is statically invalid", <<>>, <<>>)
        ELSE [NoResult EXCEPT
                !.status = "success",
                !.emitted = <<"flipTensor", "tensor.cast">>,
                !.values = axis,
                !.resRank = in.selfRank]

\* ranks of self and the dims lists presented to aten.flip
FlipRanks == 0..3
FlipDims == -4..3
FlipDimLists ==
    {<<>>} \cup {<<a>> : a \in FlipDims} \cup {<<a, b>> : a \in FlipDims, b \in FlipDims}

AtenFlip ==
    /\ phase = "pending"
    /\ \E selfRank \in FlipRanks, dims \in FlipDimLists, dimsConst \in BOOLEAN :
          LET in == [kind |-> "aten.flip", selfRank |-> selfRank,
                     dims |-> dims, dimsConst |-> dimsConst]
          IN  /\ inp' = in
              /\ res' = ConvertAtenFlipOp(in)
    /\ phase' = "done"
    /\ opname' = "aten.flip"

NextFlip == AtenFlip \/ NextOp

SpecFlip == Init /\ [][NextFlip]_vars


(***************************************************************************)
(* The lowerings together.                                                 *)
(***************************************************************************)
Next ==
    \/ AtenFlip
    \/ SignShiftCall
    \/ AtenMm
    \/ AtenBmm
    \/ AtenMatmul
    \/ Aten_Trilinear
    \/ AtenConvolution
    \/ NextOp

Spec == Init /\ [][Next]_vars


(***************************************************************************)
(* Properties.                                                             *)
(***************************************************************************)
ContractionPrimitives ==
    {"linalg.dot", "linalg.vecmat", "linalg.matvec", "linalg.matmul",
     "linalg.quantized_matmul", "linalg.batch_matmul",
     "linalg.quantized_batch_matmul", "linalg.generic.contraction"}

ConvolutionPrimitives ==
    {"linalg.conv_1d_ncw_fcw", "linalg.conv_2d_nchw_fchw",
     "linalg.conv_3d_ncdhw_fcdhw", "linalg.conv_2d_nhwc_hwcf_q",
     "linalg.conv_3d_ndhwc_dhwcf_q", "linalg.depthwise_conv_1d_ncw_cw",
     "linalg.depthwise_conv_2d_nchw_chw", "linalg.depthwise_conv_2d_nhwc_hwc_q",
     "linalg.conv_2d_ngchw_gfchw", "linalg.conv_2d_ngchw_gfchw_q"}

Primitives == ContractionPrimitives \cup ConvolutionPrimitives

\* the positions of the primitives among the created constructs
PrimitivePositions == {i \in 1..Len(res.emitted) : res.emitted[i] \in Primitives}

Called(name) == phase = "done" /\ opname = name

\* C1: in aten.mm, aten.matmul and aten.convolution, when exactly one of the
\* two operands comes from a make-per-tensor-quantized-tensor construction
\* the call returns failure and has created no contraction or convolution
\* primitive.
MixedQuantizationFails ==
    /\ (Called("aten.mm") \/ Called("aten.matmul")) /\ inp.lq # inp.rq
         => res.status = "failure" /\ res.prim = "none" /\ PrimitivePositions = {}
    /\ Called("aten.convolution") /\ inp.iq # inp.wq
         => res.status = "failure" /\ res.prim = "none" /\ PrimitivePositions = {}

\* aten.matmul with a plain lhs of rank 2 and a quantized rhs of rank 2 has
\* been rejected for its mixed quantization
MixedQuantizationRejected ==
    /\ Called("aten.matmul") /\ inp.typesOk /\ ~inp.lq /\ inp.rq /\ inp.dtypeEq
    /\ Len(inp.lhs) = 2 /\ Len(inp.rhs) = 2
    /\ res.status = "failure"
    /\ res.reason = "unsupported: aten.matmul with mixed quantization"

\* an aten.matmul of plain operands with one element type that passed the
\* type verification
PlainMatmul ==
    Called("aten.matmul") /\ inp.typesOk /\ ~inp.lq /\ ~inp.rq /\ inp.dtypeEq

IsBatchedPair(lhsRank, rhsRank) ==
    lhsRank > 1 /\ rhsRank > 1 /\ Max(lhsRank, rhsRank) >= 3

\* the arm of the four unbatched rank pairs: primitive and accumulator rank
UnbatchedArm(lhsRank, rhsRank) ==
    IF lhsRank = 1 /\ rhsRank = 1 THEN <<"linalg.dot", 0>>
    ELSE IF lhsRank = 1 /\ rhsRank = 2 THEN <<"linalg.vecmat", 1>>
    ELSE IF lhsRank = 2 /\ rhsRank = 1 THEN <<"linalg.matvec", 1>>
    ELSE <<"linalg.matmul", 2>>

UnbatchedArmTaken ==
    LET lhsRank == Len(inp.lhs)
        rhsRank == Len(inp.rhs)
    IN  (PlainMatmul /\ lhsRank \in {1, 2} /\ rhsRank \in {1, 2}) =>
            /\ res.status = "success"
            /\ <<res.prim, Len(res.acc)>> = UnbatchedArm(lhsRank, rhsRank)
            /\ Cardinality(PrimitivePositions) = 1
            /\ \A i \in PrimitivePositions : res.emitted[i] = res.prim

\* C2 as stated: the primitive and the rank of its accumulator follow from
\* the two ranks alone, and in the batched arm the accumulator has rank
\* (max(lhsRank, rhsRank) - 2) + 2.
MatmulDispatchByRankOnly ==
    /\ UnbatchedArmTaken
    /\ (PlainMatmul /\ IsBatchedPair(Len(inp.lhs), Len(inp.rhs))
          /\ res.status = "success") =>
            /\ res.prim \in {"linalg.batch_matmul", "linalg.generic.contraction"}
            /\ Len(res.acc) = (Max(Len(inp.lhs), Len(inp.rhs)) - 2) + 2

\* C2, amended: the four unbatched rank pairs take dot, vector-matrix,
\* matrix-vector and matrix-matrix with accumulators of rank 0, 1, 1 and 2;
\* a batched pair whose broadcast can be constructed takes the batched
\* matmul with an accumulator of rank 3 when the maximal rank is 3 or the
\* result type has at most one dynamic batch dimension (the collapsed result
\* is expanded back), and the generic contraction with an accumulator of
\* rank (max - 2) + 2 when more than one batch dimension is dynamic; exactly
\* one primitive is created.
MatmulDispatch ==
    /\ UnbatchedArmTaken
    /\ (PlainMatmul /\ IsBatchedPair(Len(inp.lhs), Len(inp.rhs))
          /\ res.status = "success") =>
            LET maxRank == Max(Len(inp.lhs), Len(inp.rhs)) IN
            /\ Cardinality(PrimitivePositions) = 1
            /\ \A i \in PrimitivePositions : res.emitted[i] = res.prim
            /\ IF maxRank = 3 \/ inp.dyn <= 1
                 THEN /\ res.prim = "linalg.batch_matmul"
                      /\ Len(res.acc) = 3
                      /\ maxRank > 3 =>
                           IndexOf(res.emitted, "tensor.expand_shape")
                               > IndexOf(res.emitted, res.prim)
                 ELSE /\ res.prim = "linalg.generic.contraction"
                      /\ Len(res.acc) = (maxRank - 2) + 2

\* a plain aten.matmul of two rank-4 operands with static batch dimensions
\* has been lowered to a batched matmul on collapsed operands
MatmulCollapsedArmTaken ==
    /\ PlainMatmul /\ Len(inp.lhs) = 4 /\ Len(inp.rhs) = 4 /\ inp.dyn = 0
    /\ res.status = "success"
    /\ res.prim = "linalg.batch_matmul"
    /\ Len(res.acc) = 3

\* C3: every failure of the aten.matmul lowering was reported through
\* notifyMatchFailure with a reason, also for the rank pairs outside the
\* dispatch table.
MatmulFailureHasReason ==
    (Called("aten.matmul") /\ res.status = "failure") => res.reason # ""


\* the operand ranks each of aten.mm, aten.matmul and aten.bmm lowers
RanksSupported ==
    LET lhsRank == Len(inp.lhs)
        rhsRank == Len(inp.rhs)
    IN  IF opname = "aten.mm" THEN lhsRank = 2 /\ rhsRank = 2
        ELSE IF opname = "aten.bmm" THEN lhsRank = 3 /\ rhsRank = 3
        ELSE \/ (lhsRank \in {1, 2} /\ rhsRank \in {1, 2})
             \/ IsBatchedPair(lhsRank, rhsRank)

\* the extents the contraction runs over: the last of lhs, and the first of
\* a rank-1 rhs or the last but one of any other rhs
ContractingExtents ==
    <<inp.lhs[Len(inp.lhs)],
      IF Len(inp.rhs) = 1 THEN inp.rhs[1] ELSE inp.rhs[Len(inp.rhs) - 1]>>

\* no check other than the one on the contracting extents stands in the way
\* of the lowering
OtherChecksPass ==
    /\ inp.typesOk
    /\ opname \in {"aten.mm", "aten.matmul"} =>
         /\ inp.lq = inp.rq
         /\ inp.lq \/ inp.dtypeEq
    /\ (opname = "aten.matmul" /\ IsBatchedPair(Len(inp.lhs), Len(inp.rhs))) =>
         res.reason # "unable to perform broadcast operation"

MismatchedContraction ==
    /\ phase = "done"
    /\ opname \in {"aten.mm", "aten.matmul", "aten.bmm"}
    /\ RanksSupported
    /\ ContractingExtents[1] # ContractingExtents[2]
    /\ OtherChecksPass

\* a runtime assertion is created before the contraction primitive
AssertionBeforePrimitive ==
    /\ IndexOf(res.emitted, "cf.assert") > 0
    /\ IndexOf(res.emitted, "cf.assert") < IndexOf(res.emitted, res.prim)

\* C4 as stated: with supported ranks and differing contracting extents the
\* lowering succeeds and a runtime assertion on the contracting extents
\* precedes the contraction primitive.
MismatchAlwaysAsserted ==
    MismatchedContraction =>
        /\ res.status = "success"
        /\ res.prim \in ContractionPrimitives
        /\ AssertionBeforePrimitive

\* C4, amended: with supported ranks and differing contracting extents (and
\* every other check of the lowering passing) the lowering succeeds; unless
\* the context assumes strict symbolic shapes a runtime assertion precedes
\* the contraction primitive, and under that assumption no assertion is
\* created at all.
MismatchAssertedUnlessStrict ==
    MismatchedContraction =>
        /\ res.status = "success"
        /\ res.prim \in ContractionPrimitives
        /\ ~inp.strict => AssertionBeforePrimitive
        /\ inp.strict => IndexOf(res.emitted, "cf.assert") = 0

\* aten.mm of [2,3] by [2,4] has been lowered with the assertion in front
\* of the matmul
MmMismatchAsserted ==
    /\ Called("aten.mm") /\ inp.lhs = <<2, 3>> /\ inp.rhs = <<2, 4>>
    /\ ~inp.strict /\ ~inp.lq /\ ~inp.rq
    /\ res.status = "success"
    /\ res.prim = "linalg.matmul"
    /\ AssertionBeforePrimitive

\* C6: whenever aten.matmul succeeds on two quantized operands, the
\* contraction it created is a quantized primitive and was handed both
\* zero-points as signShift left them.
QuantizedMatmulUsesZeroPoints ==
    (Called("aten.matmul") /\ inp.lq /\ inp.rq /\ res.status = "success") =>
        /\ res.prim \in {"linalg.quantized_matmul",
                         "linalg.quantized_batch_matmul"}
        /\ res.primZps = <<IF inp.lu THEN inp.lzp - Shl1(inp.lbits - 1) ELSE inp.lzp,
                           IF inp.ru THEN inp.rzp - Shl1(inp.rbits - 1) ELSE inp.rzp>>

\* the batched arm of aten.matmul has computed the broadcasted batch shape
BatchedArmReached ==
    /\ Called("aten.matmul") /\ inp.typesOk /\ inp.lq = inp.rq
    /\ inp.lq \/ inp.dtypeEq
    /\ IsBatchedPair(Len(inp.lhs), Len(inp.rhs))

\* C7: in the batched arm the broadcasted batch shape has
\* max(lhsRank, rhsRank) - 2 entries; aligned from the right, an entry is the
\* larger of the two extents where both operands have a batch dimension and
\* the extent of the operand that has one elsewhere; every dimension queried
\* lies in [0, rank) of the operand queried.
BroadcastedBatchShapeIsMax ==
    BatchedArmReached =>
        LET batchRank == Max(Len(inp.lhs), Len(inp.rhs)) - 2 IN
        /\ Len(res.batch) = batchRank
        /\ \A p \in 1..batchRank :
             LET l == AlignedBatchExtent(inp.lhs, batchRank, p - 1)
                 r == AlignedBatchExtent(inp.rhs, batchRank, p - 1)
             IN  /\ (l # 0 /\ r # 0) =>
                       /\ res.batch[p] >= l /\ res.batch[p] >= r
                       /\ res.batch[p] \in {l, r}
                 /\ l = 0 => res.batch[p] = r
                 /\ r = 0 => res.batch[p] = l
        /\ \A k \in 1..Len(res.dimq) : InBounds(res.dimq[k])
        /\ Len(res.dimq) >= batchRank + 4

\* lhs [2,1,2,3] and rhs [5,3,4] have the batch shape [2,5]
BatchShapeBroadcast ==
    /\ BatchedArmReached
    /\ inp.lhs = <<2, 1, 2, 3>> /\ inp.rhs = <<5, 3, 4>>
    /\ res.status = "success"
    /\ res.batch = <<2, 5>>

\* the operands have, at one aligned batch position that is static in the
\* types, two different extents neither of which is 1
Unbroadcastable ==
    LET batchRank == Max(Len(inp.lhs), Len(inp.rhs)) - 2 IN
    \E p \in (inp.dyn + 1)..batchRank :
        LET l == AlignedBatchExtent(inp.lhs, batchRank, p - 1)
            r == AlignedBatchExtent(inp.rhs, batchRank, p - 1)
        IN  l # 0 /\ r # 0 /\ l # r /\ l # 1 /\ r # 1

Count(s, x) == Cardinality({i \in 1..Len(s) : s[i] = x})

\* C9: batched aten.matmul with maximal rank above 3.  With at most one
\* dynamic batch dimension in the result type both broadcasted operands are
\* collapsed with the three groups [0..batchRank-1], [batchRank],
\* [batchRank+1], which partition 0..maxRank-1 in order, the collapsed batch
\* extent is the product of the broadcasted batch extents, a 3-D batched
\* matmul is created and its result expanded back with the same
\* reassociation.  With more than one dynamic batch dimension nothing is
\* collapsed and a generic contraction with batchRank + 3 iterators, exactly
\* one of them a reduction, is created.
CollapseOrGeneric ==
    (BatchedArmReached /\ res.status = "success"
       /\ Max(Len(inp.lhs), Len(inp.rhs)) > 3) =>
        LET maxRank == Max(Len(inp.lhs), Len(inp.rhs))
            batchRank == maxRank - 2
            at(name) == IndexOf(res.emitted, name)
        IN  IF inp.dyn <= 1
              THEN /\ Len(res.reassoc) = 3
                   /\ Flatten(res.reassoc) = [k \in 1..maxRank |-> k - 1]
                   /\ Len(res.reassoc[1]) = batchRank
                   /\ Len(res.reassoc[2]) = 1
                   /\ Len(res.reassoc[3]) = 1
                   /\ \A o \in 1..2 :
                        /\ Len(res.collapsed[o]) = 3
                        /\ res.collapsed[o][1] = Product(res.batch)
                   /\ res.acc[1] = Product(res.batch)
                   /\ Len(res.acc) = 3
                   /\ res.prim \in {"linalg.batch_matmul",
                                    "linalg.quantized_batch_matmul"}
                   /\ Count(res.emitted, "tensor.collapse_shape") = 2
                   /\ Count(res.emitted, "tensor.expand_shape") = 1
                   /\ at("tensor.collapse_shape") < at(res.prim)
                   /\ at(res.prim) < at("tensor.expand_shape")
                   /\ res.iters = <<>>
              ELSE /\ Count(res.emitted, "tensor.collapse_shape") = 0
                   /\ Count(res.emitted, "tensor.expand_shape") = 0
                   /\ res.reassoc = <<>>
                   /\ res.prim = "linalg.generic.contraction"
                   /\ Len(res.iters) = batchRank + 3
                   /\ Count(res.iters, "reduction") = 1

\* lhs [2,5,2,3] and rhs [2,5,3,4] with one dynamic batch dimension have been
\* collapsed to a batch of 10
BatchCollapsed ==
    /\ BatchedArmReached /\ inp.dyn = 1
    /\ inp.lhs = <<2, 5, 2, 3>> /\ inp.rhs = <<2, 5, 3, 4>>
    /\ res.status = "success"
    /\ res.reassoc = <<<<0, 1>>, <<2>>, <<3>>>>
    /\ res.collapsed = <<<<10, 2, 3>>, <<10, 3, 4>>>>

\* the same operands with two dynamic batch dimensions have been lowered to
\* the generic contraction
GenericContractionTaken ==
    /\ BatchedArmReached /\ inp.dyn = 2
    /\ inp.lhs = <<2, 5, 2, 3>> /\ inp.rhs = <<2, 5, 3, 4>>
    /\ res.status = "success"
    /\ res.prim = "linalg.generic.contraction"

\* q is the floor of num / den, for den > 0
IsFloorDiv(q, num, den) == q * den <= num /\ num < (q + 1) * den

\* C10: in a forward convolution each spatial extent of the accumulator is
\* floor((in + 2*padding - dilation*(kernel-1) - 1) / stride) + 1 of the
\* unpadded input extent; the first two extents of the accumulator are the
\* batch extent of the input and the extent of axis 0 of the weight.
ForwardOutputExtent ==
    (Called("aten.convolution") /\ res.status = "success" /\ ~inp.transposed) =>
        /\ Len(res.acc) = Len(inp.dims) + 2
        /\ res.acc[1] = inp.inBatch
        /\ res.acc[2] = inp.weightBatch
        /\ \A i \in 1..Len(inp.dims) :
             LET d == inp.dims[i] IN
             IsFloorDiv(res.acc[i + 2] - 1,
                        d.in + 2 * d.padding - d.dilation * (d.kernel - 1) - 1,
                        d.stride)

\* input extent 10, padding 1, dilation 1, kernel 3, stride 2 has given 5
ForwardOutputExtentFive ==
    /\ Called("aten.convolution") /\ res.status = "success" /\ ~inp.transposed
    /\ Len(inp.dims) = 2
    /\ inp.dims[2] = [in |-> 10, kernel |-> 3, padding |-> 1, dilation |-> 1,
                      stride |-> 2, outputPadding |-> 0]
    /\ inp.dims[1].in = 8
    /\ res.acc = <<2, 8, 6, 5>>


(***************************************************************************)
(* Convolution: the supported matrix.                                      *)
(***************************************************************************)
\* every check of the convolution lowering that does not depend on the
\* group count or on the number of spatial dimensions passes
ConvOtherChecksPass ==
    /\ inp.iq = inp.wq
    /\ (inp.iq /\ inp.biasRank # 0) => inp.biasI32
    /\ inp.biasRank \in {0, 1}
    /\ inp.transposedConst /\ inp.dtypeOk
    /\ inp.paddingList /\ inp.outputPaddingList
    /\ inp.strideConst /\ inp.dilationConst /\ inp.groupsConst

\* the named convolutions per number of spatial dimensions
DirectConvolutionOf(n) ==
    IF n = 1 THEN "linalg.conv_1d_ncw_fcw"
    ELSE IF n = 2 THEN "linalg.conv_2d_nchw_fchw"
    ELSE "linalg.conv_3d_ncdhw_fcdhw"

QuantizedConvolutionsOf(n) ==
    IF n = 1 THEN {"linalg.conv_1d_nwc_wcf_q"}
    ELSE IF n = 2 THEN {"linalg.conv_2d_nhwc_hwcf_q"}
    ELSE {"linalg.conv_3d_ndhwc_dhwcf_q"}

\* C11: a convolution with groups == 1 and 1, 2 or 3 spatial dimensions is
\* lowered with success, unquantized to the direct named convolution of its
\* spatial rank and quantized to the quantized convolution of that same
\* spatial rank, given both zero-points.
GroupsOneConvolutionSupported ==
    (/\ Called("aten.convolution") /\ ConvOtherChecksPass
     /\ inp.numGroups = 1 /\ Len(inp.dims) \in 1..3 /\ inp.inRank >= 3) =>
        /\ res.status = "success"
        /\ ~inp.iq => res.prim = DirectConvolutionOf(Len(inp.dims))
        /\ inp.iq => /\ res.prim \in QuantizedConvolutionsOf(Len(inp.dims))
                     /\ Len(res.primZps) = 2


DepthwisePrimitives ==
    {"linalg.depthwise_conv_1d_ncw_cw", "linalg.depthwise_conv_2d_nchw_chw",
     "linalg.depthwise_conv_2d_nhwc_hwc_q"}

GroupedPrimitives ==
    {"linalg.conv_2d_ngchw_gfchw", "linalg.conv_2d_ngchw_gfchw_q"}

\* the convolution passed every check made before the branch on the group
\* count
ConvBranchReached ==
    /\ Called("aten.convolution") /\ ConvOtherChecksPass
    /\ inp.inRank >= 3 /\ Len(inp.dims) \in 1..3

\* the static shapes have the depthwise form
DepthwiseShapes ==
    /\ inp.inChannelsStatic = inp.numGroups
    /\ inp.weightBatchStatic = inp.numGroups
    /\ inp.weightChannels = 1

Emitted(op) == \E i \in 1..Len(res.emitted) : res.emitted[i] = op

FailedWithoutConvolution ==
    /\ res.status = "failure"
    /\ res.prim = "none"
    /\ \A p \in ConvolutionPrimitives : ~Emitted(p)

FailureEmitsNothing ==
    (phase = "done" /\ res.status = "failure") => res.emitted = <<>>


(***************************************************************************)
(* Trilinear.                                                              *)
(***************************************************************************)
\* C15: the trilinear lowering of three 1-D inputs of one length n with no
\* expansions, sum-dim = {0} and unroll-dim = 0 yields a replacement value
\* that is the single scalar sum over k of i1[k]*i2[k]*i3[k]: the summed
\* dimension is gone and nothing of the uninitialised accumulator enters.
TrilinearIsProductSum ==
    (/\ Called("aten._trilinear")
     /\ inp.expand1Const /\ inp.expand2Const /\ inp.expand3Const
     /\ inp.sumDimConst /\ inp.unrollDimConst
     /\ TriTracked(inp) /\ inp.sumDim = <<0>>) =>
        /\ res.status = "success"
        /\ res.runtime = "value"
        /\ res.resRank = 0
        /\ res.values =
              <<SumSeq([k \in 1..Len(inp.i1) |->
                          inp.i1[k] * inp.i2[k] * inp.i3[k]])>>


(***************************************************************************)
(* Operands that have to be compile-time constants.                        *)
(***************************************************************************)
\* C16: when an operand that has to be a compile-time constant is not one
\* the lowering returns failure: transposed, stride, dilation and groups of
\* the convolution (and a padding or output_padding that is no list
\* construct), expand1, expand2, expand3, sumdim and unroll_dim of the
\* trilinear contraction, and the dims of flip.
NonConstantFails ==
    /\ (/\ Called("aten.convolution")
        /\ \/ ~inp.transposedConst \/ ~inp.strideConst \/ ~inp.dilationConst
           \/ ~inp.groupsConst \/ ~inp.paddingList \/ ~inp.outputPaddingList)
          => res.status = "failure" /\ PrimitivePositions = {}
    /\ (/\ Called("aten._trilinear")
        /\ \/ ~inp.expand1Const \/ ~inp.expand2Const \/ ~inp.expand3Const
           \/ ~inp.sumDimConst \/ ~inp.unrollDimConst)
          => res.status = "failure" /\ res.emitted = <<>>
    /\ (Called("aten.flip") /\ ~inp.dimsConst)
          => res.status = "failure" /\ res.emitted = <<>>

\* an aten.flip whose dims are no list of constants has been rejected
FlipNonConstantRejected ==
    /\ Called("aten.flip") /\ ~inp.dimsConst /\ inp.selfRank = 2
    /\ inp.dims = <<0, 1>>
    /\ res.status = "failure"
    /\ res.reason = "only constant dim lists supported"


(***************************************************************************)
(* Strict symbolic shapes.                                                 *)
(***************************************************************************)
\* C17: when the context assumes strict symbolic shapes the lowerings
\* create no runtime shape assertion, neither the contracting-dimension
\* assertion of aten.mm nor the group-divisibility assertions of the
\* convolution; when it does not, the assertions are created.
StrictShapesElideAssertions ==
    (/\ phase = "done" /\ opname \in {"aten.mm", "aten.convolution"}
     /\ res.status = "success") =>
        /\ inp.strict => ~Emitted("cf.assert")
        /\ ~inp.strict => Emitted("cf.assert")


\* the conversion to the result element type sits after the primitive and
\* before the final cast
ConvertedAfterContraction(r) ==
    \E i \in 1..Len(r.emitted) :
       /\ r.emitted[i] = "convertTensorToElementType"
       /\ \E j \in 1..(i - 1) : r.emitted[j] = r.prim
       /\ \E j \in (i + 1)..Len(r.emitted) : r.emitted[j] = "tensor.cast"

\* C18: every successful lowering of aten.mm and aten.matmul allocates its
\* accumulator with the default accumulation element type of the operands,
\* and converts the contraction's result to the result element type before
\* the final cast whenever the two types differ
AccumulatorTypeConverted ==
    (phase = "done" /\ opname \in {"aten.mm", "aten.matmul"}
       /\ res.status = "success")
    => /\ res.accElem = inp.accType
       /\ inp.accType # inp.resultType => ConvertedAfterContraction(res)

\* the part of C18 that aten.mm satisfies
MmAccumulatorTypeConverted ==
    (phase = "done" /\ opname = "aten.mm" /\ res.status = "success")
    => /\ res.accElem = inp.accType
       /\ inp.accType # inp.resultType <=> ConvertedAfterContraction(res)


\* C19: a transposed convolution builds, per spatial dimension, a buffer of
\* extent 2*(dilation*(kernel-1) - padding) + ((input-1)*stride + 1)
\* + outputPadding, inserts the input at offset dilation*(kernel-1) - padding
\* with step stride, and hands stride 1 to the primitive; the buffer extent
\* less dilation*(kernel-1) is the extent of the accumulator,
\* (input-1)*stride - 2*padding + dilation*(kernel-1) + outputPadding + 1
TransposedBufferExtent ==
    (phase = "done" /\ opname = "aten.convolution" /\ inp.transposed
       /\ res.status = "success")
    => /\ Len(res.outerSizes) = Len(inp.dims)
       /\ Len(res.offsets) = Len(inp.dims)
       /\ Len(res.insertStrides) = Len(inp.dims)
       /\ Len(res.values) = Len(inp.dims)
       /\ Len(res.acc) = Len(inp.dims) + 2
       /\ \A i \in 1..Len(inp.dims) :
             LET d == inp.dims[i]
                 reach == d.dilation * (d.kernel - 1)
             IN  /\ res.outerSizes[i] = 2 * (reach - d.padding)
                       + ((d.in - 1) * d.stride + 1) + d.outputPadding
                 /\ res.offsets[i] = reach - d.padding
                 /\ res.insertStrides[i] = d.stride
                 /\ res.values[i] = 1
                 /\ res.acc[i + 2] = (d.in - 1) * d.stride - 2 * d.padding
                       + reach + d.outputPadding + 1
                 /\ res.outerSizes[i] - reach = res.acc[i + 2]

\* a transposed convolution with output padding 1, padding 2 and stride 3
\* of an input of extent 5 under a kernel of extent 3: buffer 14, output 12
TransposedBufferFourteen ==
    /\ phase = "done" /\ opname = "aten.convolution" /\ inp.transposed
    /\ res.status = "success"
    /\ Len(inp.dims) = 1
    /\ inp.dims[1].outputPadding = 1 /\ inp.dims[1].stride = 3
    /\ res.outerSizes = <<14>>
    /\ res.offsets = <<0>>
    /\ res.acc[3] = 12
    /\ res.values = <<1>>


\* a permutation of the axes 0 .. rank-1
IsAxisPermutation(perms, rank) ==
    /\ Len(perms) = rank
    /\ {perms[i] : i \in 1..Len(perms)} = 0..(rank - 1)

\* C20: in the quantized convolution branches the permutation of the result
\* undoes the permutation of the input: for 1 to 3 spatial dimensions,
\* transposing by inPerms and then by outPerms (groups == 1) or resultPerms
\* (depthwise) leaves the axes (batch, channel, spatial...) in order, every
\* such permutation is a bijection on the axes, and a lowering that took one
\* of these branches replaces the operator by a value whose axes are in order
OutputPermutationInvertsInput ==
    /\ \A n \in 1..3 :
          /\ IsAxisPermutation(ConvInPerms(n), n + 2)
          /\ IsAxisPermutation(ConvOutPerms(n), n + 2)
          /\ IsAxisPermutation(ConvDepthwiseResultPerms(n), n + 2)
          /\ transposeValue(transposeValue(Axes(n + 2), ConvInPerms(n)),
                            ConvOutPerms(n)) = Axes(n + 2)
          /\ transposeValue(transposeValue(Axes(n + 2), ConvInPerms(n)),
                            ConvDepthwiseResultPerms(n)) = Axes(n + 2)
    /\ (phase = "done" /\ opname = "aten.convolution"
          /\ res.status = "success" /\ res.perms # <<>>)
       => /\ Len(res.perms) = 3
          /\ IsAxisPermutation(res.perms[1], inp.inRank)
          /\ IsAxisPermutation(res.perms[3], inp.inRank)
          /\ res.layout = Axes(inp.inRank)
          /\ transposeValue(transposeValue(Axes(inp.inRank), res.perms[1]),
                            res.perms[3]) = Axes(inp.inRank)

\* a quantized convolution of three spatial dimensions, permuted to
\* channels-last and back
QuantizedThreeDimsPermuted ==
    /\ phase = "done" /\ opname = "aten.convolution"
    /\ res.status = "success"
    /\ res.prim = "linalg.conv_3d_ndhwc_dhwcf_q"
    /\ res.perms = <<<<0, 2, 3, 4, 1>>, <<2, 3, 4, 1, 0>>, <<0, 4, 1, 2, 3>>>>
    /\ res.layout = <<0, 1, 2, 3, 4>>


\* the convolution got as far as the initialisation of the accumulator
ConvReachedAccumulator ==
    /\ phase = "done" /\ opname = "aten.convolution"
    /\ inp.iq = inp.wq
    /\ (inp.iq /\ inp.biasRank # 0) => inp.biasI32
    /\ inp.transposedConst /\ inp.dtypeOk
    /\ inp.inRank \in 3..5
    /\ inp.paddingList /\ inp.outputPaddingList
    /\ inp.strideConst /\ inp.dilationConst /\ inp.groupsConst

\* the parts of C21 on the fill, the rank of the bias and the broadcast axes
AccumulatorFilledOrBroadcast ==
    ConvReachedAccumulator
    => /\ inp.biasRank \notin {0, 1}
            => (res.status = "failure"
                  /\ res.reason = "expect bias to be rank 1")
       /\ res.status = "success"
            => /\ inp.biasRank = 0
                    => (res.accInit = "linalg.fill" /\ res.biasElem = "")
               /\ inp.biasRank = 1
                    => /\ res.accInit = "linalg.broadcast"
                       /\ res.addedDimensions
                             = SelectSeq(Axes(Len(res.acc)), LAMBDA i : i # 1)

\* C21: without a bias the accumulator of a convolution is filled with zero,
\* a bias of rank other than 1 fails the lowering, a bias of rank 1 is
\* broadcast along every axis of the accumulator but axis 1, and the bias
\* handed to the broadcast always has the accumulation element type
AccumulatorInitialised ==
    /\ AccumulatorFilledOrBroadcast
    /\ (ConvReachedAccumulator /\ res.status = "success" /\ inp.biasRank = 1)
       => res.biasElem = "accumulatorDType"


\* the elements of a sequence, and membership of a dimension in a list
SeqSet(s) == {s[i] : i \in 1..Len(s)}
TriListed(list, d) == \E j \in 1..Len(list) : list[j] = d

\* the sum dimensions other than the unroll dimension
TriSummedDims ==
    {d \in 0..(Len(inp.i1Shape) + Len(inp.expand1) - 1) :
        TriListed(inp.sumDim, d) /\ d # inp.unrollDim}

\* a lowering of aten._trilinear that went through with every subscript
\* inside what it indexes
TrilinearLowered ==
    /\ phase = "done" /\ opname = "aten._trilinear"
    /\ res.status = "success" /\ ~TriOutOfRange(inp)

\* C22 as stated: the first partition is the sum dimensions at which
\* operand 3 is expanded, the second the sum dimensions at which operand 2
\* is expanded, and neither holds the unroll dimension
SumPartitionByExpansion ==
    TrilinearLowered
    => /\ SeqSet(res.sumDims12)
            = {d \in TriSummedDims : TriListed(inp.expand3, d)}
       /\ SeqSet(res.sumDims23)
            = {d \in TriSummedDims : TriListed(inp.expand2, d)}
       /\ inp.unrollDim \notin SeqSet(res.sumDims12) \cup SeqSet(res.sumDims23)

\* C22: the sum dimensions other than the unroll dimension are split in
\* two: the first partition is those at which operand 3 is expanded, the
\* second those at which operand 3 is not expanded; the two are disjoint,
\* together they are all of them, and neither holds the unroll dimension
SumPartitionByThirdOperand ==
    TrilinearLowered
    => /\ SeqSet(res.sumDims12)
            = {d \in TriSummedDims : TriListed(inp.expand3, d)}
       /\ SeqSet(res.sumDims23)
            = {d \in TriSummedDims : ~TriListed(inp.expand3, d)}
       /\ SeqSet(res.sumDims12) \cap SeqSet(res.sumDims23) = {}
       /\ SeqSet(res.sumDims12) \cup SeqSet(res.sumDims23) = TriSummedDims
       /\ Len(res.sumDims12) + Len(res.sumDims23) = Cardinality(TriSummedDims)
       /\ inp.unrollDim \notin SeqSet(res.sumDims12) \cup SeqSet(res.sumDims23)

\* a sum dimension at which neither operand 2 nor operand 3 is expanded
\* lands in the second partition
SecondPartitionUnexpanded ==
    /\ TrilinearLowered
    /\ res.sumDims23 = <<0>> /\ res.sumDims12 = <<>>
    /\ inp.expand2 = <<>> /\ inp.expand3 = <<>>
    /\ inp.unrollDim = 1


\* an operand in the unified dimension space: its own axes in order at the
\* dimensions where it is not expanded, a unit dimension where it is
TriUnifiedAxis(list, d) ==
    Cardinality({c \in 0..(d - 1) : ~TriListed(list, c)}) + 1

TriUnifiedExtent(shape, list, d) ==
    IF TriListed(list, d) THEN 1 ELSE shape[TriUnifiedAxis(list, d)]

TriUnifiedShape(shape, list, totalDims) ==
    [j \in 1..totalDims |-> TriUnifiedExtent(shape, list, j - 1)]

\* the expansion list of an operand fills its shape up to the unified space
TriAligned(shape, list, totalDims) ==
    /\ \A j \in 1..Len(list) : 0 <= list[j] /\ list[j] < totalDims
    /\ Len(shape) + Cardinality(SeqSet(list)) = totalDims

TrilinearAligned ==
    LET totalDims == Len(inp.i1Shape) + Len(inp.expand1)
    IN  /\ TrilinearLowered
        /\ TriAligned(inp.i1Shape, inp.expand1, totalDims)
        /\ TriAligned(inp.i2Shape, inp.expand2, totalDims)
        /\ TriAligned(inp.i3Shape, inp.expand3, totalDims)

\* the part of C23 on the recorded extents
OutputExtentOfUnexpandedOperand ==
    TrilinearAligned
    => \A d \in 0..(Len(res.outputShape) - 1) :
          \/ /\ ~TriListed(inp.expand1, d)
             /\ res.outputShape[d + 1]
                   = TriUnifiedExtent(inp.i1Shape, inp.expand1, d)
          \/ /\ ~TriListed(inp.expand2, d)
             /\ res.outputShape[d + 1]
                   = TriUnifiedExtent(inp.i2Shape, inp.expand2, d)
          \/ /\ ~TriListed(inp.expand3, d)
             /\ res.outputShape[d + 1]
                   = TriUnifiedExtent(inp.i3Shape, inp.expand3, d)
          \/ /\ TriListed(inp.expand1, d) /\ TriListed(inp.expand2, d)
             /\ TriListed(inp.expand3, d)

\* C23: for every unified dimension d the extent recorded for the output is
\* the extent, in the unified space, of an operand that is not expanded at
\* d, and every operand expanded at d gets a unit dimension at position d
OutputExtentsAndUnitDimensions ==
    /\ OutputExtentOfUnexpandedOperand
    /\ TrilinearAligned
       => LET totalDims == Len(inp.i1Shape) + Len(inp.expand1)
          IN  /\ Len(res.outputShape) = totalDims
              /\ res.operandShapes
                    = <<TriUnifiedShape(inp.i1Shape, inp.expand1, totalDims),
                        TriUnifiedShape(inp.i2Shape, inp.expand2, totalDims),
                        TriUnifiedShape(inp.i3Shape, inp.expand3, totalDims)>>


\* the operands of a lowered aten._trilinear all have a rank above 0
TrilinearUnrolled ==
    /\ TrilinearLowered
    /\ Len(inp.i1Shape) # 0 /\ Len(inp.i2Shape) # 0 /\ Len(inp.i3Shape) # 0

\* the part of C24 on a summed unroll dimension whose loop over k is gone
\* through once: the unroll dimension is the last one
SummedUnrollAccumulates ==
    (TrilinearUnrolled /\ TriListed(inp.sumDim, inp.unrollDim)
       /\ inp.unrollDim = Len(inp.i1Shape) + Len(inp.expand1) - 1)
    => /\ res.unrollSteps = [k \in 1..res.unrollSize |-> k - 1]
       /\ res.dependsOn = 0..(res.unrollSize - 1)

\* C24: for every index k of the unroll extent exactly one step is emitted,
\* in increasing k, and the value that replaces the operator depends on the
\* product of every k, whether the unroll dimension is summed or not
UnrollStepsAccumulated ==
    TrilinearUnrolled
    => /\ res.unrollSteps = [k \in 1..res.unrollSize |-> k - 1]
       /\ res.dependsOn = 0..(res.unrollSize - 1)


\* C25: after the harmonisation of the element types both operands handed
\* to linalg.batch_matmul by aten.bmm have the element type of the result
BmmOperandsHaveResultType ==
    (phase = "done" /\ opname = "aten.bmm" /\ res.status = "success")
    => res.values = <<inp.resultElementType, inp.resultElementType>>

\* what the harmonisation of aten.bmm does achieve: operands that differ
\* and of which one has the element type of the result both end with it
BmmOneOperandConverted ==
    (phase = "done" /\ opname = "aten.bmm" /\ res.status = "success"
       /\ inp.lhsElementType # inp.rhsElementType
       /\ inp.resultElementType \in {inp.lhsElementType, inp.rhsElementType})
    => res.values = <<inp.resultElementType, inp.resultElementType>>


\* C26: every dimension of an operand that aten.matmul reads or queries is
\* one the operand has, whatever the ranks of the operands
MatmulQueriesInRange ==
    (phase = "done" /\ opname = "aten.matmul")
    => /\ res.status # "crash"
       /\ \A k \in 1..Len(res.dimq) :
             0 <= res.dimq[k].dim /\ res.dimq[k].dim < res.dimq[k].rank

\* outside the quantized promotion of vectors every query of aten.matmul is
\* in range
MatmulQueriesInRangeUnquantized ==
    (phase = "done" /\ opname = "aten.matmul" /\ ~(inp.lq /\ inp.rq))
    => /\ res.status # "crash"
       /\ \A k \in 1..Len(res.dimq) :
             0 <= res.dimq[k].dim /\ res.dimq[k].dim < res.dimq[k].rank


\* C27: a lowering of aten._trilinear that does not return failure keeps
\* every subscript inside what it indexes: the elements of expand1, expand2,
\* expand3 and sumdim and unroll_dim are in 0 .. totalDims-1, and every read
\* iXShape[i] has i below the rank of iX
TrilinearSubscriptsInRange ==
    (phase = "done" /\ opname = "aten._trilinear" /\ res.status # "failure"
       /\ Len(inp.i1Shape) + Len(inp.expand1) > 0)
    => LET totalDims == Len(inp.i1Shape) + Len(inp.expand1)
       IN  /\ res.status = "success"
           /\ \A list \in {inp.expand1, inp.expand2, inp.expand3, inp.sumDim} :
                 \A j \in 1..Len(list) : 0 <= list[j] /\ list[j] < totalDims
           /\ 0 <= inp.unrollDim /\ inp.unrollDim < totalDims
           /\ \A i \in 0..(totalDims - 1) :
                 /\ ~TriListed(inp.expand1, i) => i < Len(inp.i1Shape)
                 /\ ~TriListed(inp.expand2, i) => i < Len(inp.i2Shape)
                 /\ ~TriListed(inp.expand3, i) => i < Len(inp.i3Shape)


(***************************************************************************)
(* Convolution: subscripts, the group count and the transposed buffer.     *)
(***************************************************************************)
\* C28: a convolution one of whose stride, dilation, padding and output
\* padding lists has a length other than the number of spatial dimensions
\* returns failure; no list is read at a position it does not have
ConvListsSubscriptedInRange ==
    (Called("aten.convolution") /\ inp.shortList # "none"
       /\ inp.inRank \in 3..5)
    => res.status = "failure"

\* C29: with a constant group count of zero, 2 spatial dimensions and static
\* channel extents the call ends in success or failure and builds no
\* expanded group shape, whose extents are quotients by the group count
NoDivisionByZeroGroups ==
    (Called("aten.convolution") /\ inp.numGroups = 0 /\ Len(inp.dims) = 2
       /\ inp.inChannelsStatic # kUnknownSize
       /\ inp.weightBatchStatic # kUnknownSize)
    => /\ res.status \in {"success", "failure"}
       /\ res.groupShape = <<>>

\* C30: in every transposed convolution that is lowered the insertion offset
\* and the extent of the buffer are non-negative in every spatial dimension
\* and the inserted input ends inside the buffer
TransposedInsertionInside ==
    (Called("aten.convolution") /\ inp.transposed /\ res.status = "success")
    => \A i \in 1..Len(res.offsets) :
          /\ res.offsets[i] >= 0
          /\ res.outerSizes[i] >= 0
          /\ res.offsets[i] + (inp.dims[i].in - 1) * inp.dims[i].stride + 1
                <= res.outerSizes[i]

====
